---- MODULE Spec2Model ----
(***************************************************************************)
(* State-machine model of @uistate/renderer (src/renderer.js): the pure    *)
(* helpers parseSetExpr / evalExpr / parsePush, and mount() with its       *)
(* subscription registry, binding scanner, delegated action dispatcher    *)
(* and keyed-collection reconciler, running against the EventState store   *)
(* contract (get / set / subscribe / batch) and a small DOM.               *)
(*                                                                         *)
(* JavaScript strings are sequences of one-character strings, JavaScript   *)
(* values are records tagged with their typeof, and objects keep their     *)
(* keys in insertion order (ks) next to the key -> value function (f).     *)
(***************************************************************************)
EXTENDS Integers, Sequences, FiniteSets, TLC

\* ------------------------------------------------------------------------
\* Bounds of the model
\* ------------------------------------------------------------------------

\* At most MaxFrames callbacks wait for the animation frame.
MaxFrames == 3
\* Date.now() readings the clock steps through (0 .. MaxClock).
MaxClock == 1
\* mount() calls over a run.
MaxMounts == 2
\* The counter of the counter page stays within -MaxCount .. MaxCount.
MaxCount == 3

\* ------------------------------------------------------------------------
\* JavaScript values
\* ------------------------------------------------------------------------

Undefined == [t |-> "undefined"]
Null == [t |-> "null"]
Bool(b) == [t |-> "boolean", b |-> b]
Num(n) == [t |-> "number", n |-> n]
NaN == [t |-> "number", nan |-> TRUE]
Str(s) == [t |-> "string", s |-> s]
Obj(ks, f) == [t |-> "object", ks |-> ks, f |-> f]
EmptyObj == Obj(<<>>, [k \in {} |-> Undefined])

\* v == null  (null or undefined)
isNullish(v) == v.t \in {"undefined", "null"}

\* !!v
truthy(v) ==
  CASE v.t = "undefined" -> FALSE
    [] v.t = "null" -> FALSE
    [] v.t = "boolean" -> v.b
    [] v.t = "number" -> IF "nan" \in DOMAIN v THEN FALSE ELSE v.n # 0
    [] v.t = "string" -> v.s # <<>>
    [] OTHER -> TRUE

\* typeof v  (typeof null is "object")
typeOf(v) == IF v.t = "null" THEN "object" ELSE v.t

\* ------------------------------------------------------------------------
\* JavaScript string primitives over character sequences.
\* Positions are 1-based; 0 stands for JavaScript's -1 (not found).
\* ------------------------------------------------------------------------

RECURSIVE indexOfFrom(_, _, _)
indexOfFrom(s, ch, i) ==
  IF i > Len(s) THEN 0
  ELSE IF s[i] = ch THEN i
  ELSE indexOfFrom(s, ch, i + 1)

indexOf(s, ch) == indexOfFrom(s, ch, 1)

RECURSIVE lastIndexOfFrom(_, _, _)
lastIndexOfFrom(s, ch, i) ==
  IF i < 1 THEN 0
  ELSE IF s[i] = ch THEN i
  ELSE lastIndexOfFrom(s, ch, i - 1)

lastIndexOf(s, ch) == lastIndexOfFrom(s, ch, Len(s))

\* s.slice(a - 1, b) in JavaScript terms: characters a .. b
slice(s, a, b) == SubSeq(s, a, b)

RECURSIVE trimStart(_)
trimStart(s) ==
  IF s # <<>> /\ Head(s) = " " THEN trimStart(Tail(s)) ELSE s

RECURSIVE trimEnd(_)
trimEnd(s) ==
  IF s # <<>> /\ s[Len(s)] = " " THEN trimEnd(SubSeq(s, 1, Len(s) - 1)) ELSE s

trim(s) == trimEnd(trimStart(s))

\* s.split(sep): the segments between the occurrences of sep
RECURSIVE split(_, _)
split(s, sep) ==
  LET i == indexOf(s, sep) IN
  IF i = 0 THEN << s >>
  ELSE << SubSeq(s, 1, i - 1) >> \o split(SubSeq(s, i + 1, Len(s)), sep)

\* parts.join(sep)
RECURSIVE join(_, _)
join(parts, sep) ==
  IF parts = <<>> THEN <<>>
  ELSE IF Len(parts) = 1 THEN parts[1]
  ELSE parts[1] \o << sep >> \o join(Tail(parts), sep)

Digits == << "0", "1", "2", "3", "4", "5", "6", "7", "8", "9" >>

isDigit(ch) == \E d \in 1..10 : Digits[d] = ch

digitValue(ch) == (CHOOSE d \in 1..10 : Digits[d] = ch) - 1

RECURSIVE natToStr(_)
natToStr(n) ==
  IF n < 10 THEN << Digits[n + 1] >>
  ELSE natToStr(n \div 10) \o << Digits[(n % 10) + 1] >>

\* String(n) for an integer n
numToStr(n) == IF n < 0 THEN << "-" >> \o natToStr(0 - n) ELSE natToStr(n)

RECURSIVE digitsToNat(_, _)
digitsToNat(s, acc) ==
  IF s = <<>> THEN acc
  ELSE digitsToNat(Tail(s), acc * 10 + digitValue(Head(s)))

allDigits(s) == s # <<>> /\ \A i \in 1..Len(s) : isDigit(s[i])

\* Number(s) for a string s: surrounding blanks are ignored, the empty string
\* is 0, an optionally signed run of decimal digits is that integer, anything
\* else (over the model's alphabet) is NaN.
strToNumber(s) ==
  LET u == trim(s) IN
  IF u = <<>> THEN Num(0)
  ELSE IF allDigits(u) THEN Num(digitsToNat(u, 0))
  ELSE IF Head(u) = "-" /\ allDigits(Tail(u)) THEN Num(0 - digitsToNat(Tail(u), 0))
  ELSE IF Head(u) = "+" /\ allDigits(Tail(u)) THEN Num(digitsToNat(Tail(u), 0))
  ELSE NaN

\* Number(v)
toNumber(v) ==
  CASE v.t = "undefined" -> NaN
    [] v.t = "null" -> Num(0)
    [] v.t = "boolean" -> IF v.b THEN Num(1) ELSE Num(0)
    [] v.t = "number" -> v
    [] v.t = "string" -> strToNumber(v.s)
    [] OTHER -> NaN

STrue == << "t", "r", "u", "e" >>
SFalse == << "f", "a", "l", "s", "e" >>
SNull == << "n", "u", "l", "l" >>
SUndefined == << "u", "n", "d", "e", "f", "i", "n", "e", "d" >>
SNaN == << "N", "a", "N" >>
SObject == << "[", "o", "b", "j", "e", "c", "t", " ", "O", "b", "j", "e", "c", "t", "]" >>

\* String(v)
toString(v) ==
  CASE v.t = "undefined" -> SUndefined
    [] v.t = "null" -> SNull
    [] v.t = "boolean" -> IF v.b THEN STrue ELSE SFalse
    [] v.t = "number" -> IF "nan" \in DOMAIN v THEN SNaN ELSE numToStr(v.n)
    [] v.t = "string" -> v.s
    [] OTHER -> SObject

\* ------------------------------------------------------------------------
\* Objects
\* ------------------------------------------------------------------------

\* Object.keys(v): own keys in insertion order; the index keys of a string;
\* none for the other primitives.
keysOf(v) ==
  CASE v.t = "object" -> v.ks
    [] v.t = "string" -> [i \in 1..Len(v.s) |-> natToStr(i - 1)]
    [] OTHER -> <<>>

\* v[k]
prop(v, k) ==
  CASE v.t = "object" -> IF k \in DOMAIN v.f THEN v.f[k] ELSE Undefined
    [] v.t = "string" ->
         IF allDigits(k) /\ k = natToStr(digitsToNat(k, 0)) /\ digitsToNat(k, 0) < Len(v.s)
         THEN Str(<< v.s[digitsToNat(k, 0) + 1] >>)
         ELSE Undefined
    [] OTHER -> Undefined

\* o[k] = v on an object: an existing key keeps its place, a new one is appended
setProp(o, k, v) ==
  IF k \in DOMAIN o.f
  THEN Obj(o.ks, [o.f EXCEPT ![k] = v])
  ELSE Obj(Append(o.ks, k), [x \in DOMAIN o.f \cup {k} |-> IF x = k THEN v ELSE o.f[x]])

\* The object literal with the given (key, value) pairs, in order
RECURSIVE objOf(_)
objOf(pairs) ==
  IF pairs = <<>> THEN EmptyObj
  ELSE setProp(objOf(SubSeq(pairs, 1, Len(pairs) - 1)),
               pairs[Len(pairs)][1], pairs[Len(pairs)][2])

\* JSON.parse(JSON.stringify(v)): a deep copy that drops the properties whose
\* value is undefined and turns NaN into null.
RECURSIVE jsonClone(_)
RECURSIVE jsonCloneFields(_, _)
jsonCloneFields(v, ks) ==
  IF ks = <<>> THEN EmptyObj
  ELSE LET rest == jsonCloneFields(v, SubSeq(ks, 1, Len(ks) - 1))
           k == ks[Len(ks)]
       IN IF v.f[k].t = "undefined" THEN rest ELSE setProp(rest, k, jsonClone(v.f[k]))

jsonClone(v) ==
  CASE v.t = "object" -> jsonCloneFields(v, v.ks)
    [] v.t = "number" -> IF "nan" \in DOMAIN v THEN Null ELSE v
    [] OTHER -> v

\* ------------------------------------------------------------------------
\* Pure helpers of renderer.js
\* ------------------------------------------------------------------------

SIncrement == << "i", "n", "c", "r", "e", "m", "e", "n", "t" >>
SDecrement == << "d", "e", "c", "r", "e", "m", "e", "n", "t" >>
SToggle == << "t", "o", "g", "g", "l", "e" >>
SDelete == << "d", "e", "l", "e", "t", "e" >>
SPush == << "p", "u", "s", "h" >>

\* parseSetExpr splitting on the last ':' (raw.lastIndexOf(':'))
parseSetExprLast(raw) ==
  LET i == lastIndexOf(raw, ":") IN
  IF i = 0 THEN [path |-> trim(raw), expr |-> Null]
  ELSE [path |-> trim(slice(raw, 1, i - 1)),
        expr |-> Str(trim(slice(raw, i + 1, Len(raw))))]

\* parseSetExpr(raw): split on the first ':'; expr is null when there is none
parseSetExpr(raw) ==
  LET i == indexOf(raw, ":") IN
  IF i = 0 THEN [path |-> trim(raw), expr |-> Null]
  ELSE [path |-> trim(slice(raw, 1, i - 1)),
        expr |-> Str(trim(slice(raw, i + 1, Len(raw))))]

\* JSON.parse(s) over the model's alphabet: a double-quoted string without
\* escapes, the empty object literal and the three keywords parse; every
\* other text throws (ok = FALSE).
jsonParse(s) ==
  LET u == trim(s) IN
  IF Len(u) >= 2 /\ Head(u) = "\"" /\ u[Len(u)] = "\""
     /\ \A i \in 2..(Len(u) - 1) : u[i] \notin {"\"", "\\"}
  THEN [ok |-> TRUE, v |-> Str(SubSeq(u, 2, Len(u) - 1))]
  ELSE IF Len(u) >= 2 /\ Head(u) = "{" /\ u[Len(u)] = "}"
          /\ trim(SubSeq(u, 2, Len(u) - 1)) = <<>>
  THEN [ok |-> TRUE, v |-> EmptyObj]
  ELSE IF u = STrue THEN [ok |-> TRUE, v |-> Bool(TRUE)]
  ELSE IF u = SFalse THEN [ok |-> TRUE, v |-> Bool(FALSE)]
  ELSE IF u = SNull THEN [ok |-> TRUE, v |-> Null]
  ELSE [ok |-> FALSE, v |-> Undefined]

\* evalExpr with the number test lacking its guard against blank text
\* (if (!isNaN(n)) return n)
evalExprBlankIsZero(expr, current) ==
  IF isNullish(expr) THEN current
  ELSE IF expr.s = SIncrement THEN Num((LET n == toNumber(current) IN IF truthy(n) THEN n.n ELSE 0) + 1)
  ELSE IF expr.s = SDecrement THEN Num((LET n == toNumber(current) IN IF truthy(n) THEN n.n ELSE 0) - 1)
  ELSE IF expr.s = SToggle THEN Bool(~truthy(current))
  ELSE IF expr.s = STrue THEN Bool(TRUE)
  ELSE IF expr.s = SFalse THEN Bool(FALSE)
  ELSE IF expr.s = SNull THEN Null
  ELSE LET n == strToNumber(expr.s) IN
       IF "nan" \notin DOMAIN n THEN n
       ELSE IF jsonParse(expr.s).ok THEN jsonParse(expr.s).v
       ELSE expr

\* (Number(current) || 0)
numberOrZero(current) ==
  LET n == toNumber(current) IN IF truthy(n) THEN n.n ELSE 0

\* evalExpr(expr, current); expr is Null or a string value
evalExpr(expr, current) ==
  IF isNullish(expr) THEN current
  ELSE IF expr.s = SIncrement THEN Num(numberOrZero(current) + 1)
  ELSE IF expr.s = SDecrement THEN Num(numberOrZero(current) - 1)
  ELSE IF expr.s = SToggle THEN Bool(~truthy(current))
  ELSE IF expr.s = STrue THEN Bool(TRUE)
  ELSE IF expr.s = SFalse THEN Bool(FALSE)
  ELSE IF expr.s = SNull THEN Null
  ELSE LET n == strToNumber(expr.s) IN
       IF "nan" \notin DOMAIN n /\ trim(expr.s) # <<>> THEN n
       ELSE IF jsonParse(expr.s).ok THEN jsonParse(expr.s).v
       ELSE expr

\* parsePush taking every text that begins with the word for the bare word
\* (expr.startsWith('push'))
parsePushPrefix(expr) ==
  IF ~truthy(expr) THEN Null
  ELSE LET s == expr.s
           n == Len(s)
       IN IF n >= 7 /\ SubSeq(s, 1, 5) = SPush \o << "(" >> /\ s[n] = ")"
             /\ \A i \in 6..(n - 1) : s[i] # ")"
          THEN [t |-> "object", source |-> Str(trim(SubSeq(s, 6, n - 1)))]
          ELSE IF n >= 4 /\ SubSeq(s, 1, 4) = SPush
          THEN [t |-> "object", source |-> Null]
          ELSE Null

\* parsePush(expr): Null for no match, otherwise a record with the source
\* (Null for the bare word).  The pattern is /^push\(([^)]+)\)$/.
parsePush(expr) ==
  IF ~truthy(expr) THEN Null
  ELSE IF expr.s = SPush THEN [t |-> "object", source |-> Null]
  ELSE LET s == expr.s
           n == Len(s)
       IN IF n >= 7 /\ SubSeq(s, 1, 5) = SPush \o << "(" >> /\ s[n] = ")"
             /\ \A i \in 6..(n - 1) : s[i] # ")"
          THEN [t |-> "object", source |-> Str(trim(SubSeq(s, 6, n - 1)))]
          ELSE Null

\* ------------------------------------------------------------------------
\* The store (EventState contract): a tree of values addressed by
\* dot-separated paths, and the subscriptions taken on it.
\* ------------------------------------------------------------------------

RECURSIVE getSegs(_, _)
getSegs(v, segs) ==
  IF segs = <<>> THEN v
  ELSE IF isNullish(v) THEN Undefined
  ELSE getSegs(prop(v, Head(segs)), Tail(segs))

\* store.get(path)
get(root, path) == getSegs(root, split(path, "."))

RECURSIVE setSegs(_, _, _)
setSegs(o, segs, v) ==
  IF Len(segs) = 1 THEN setProp(o, Head(segs), v)
  ELSE LET child == prop(o, Head(segs))
           base == IF isNullish(child) THEN EmptyObj ELSE child
       IN IF base.t # "object" THEN o
          ELSE setProp(o, Head(segs), setSegs(base, Tail(segs), v))

\* the data part of store.set(path, value): intermediate objects are created
write(root, path, v) == setSegs(root, split(path, "."), v)

\* the path a wildcard subscription is stored under for the children of p
wildcardOf(p) == p \o << ".", "*" >>

\* the parent of a dotted path (the empty path for a top-level key)
parentPath(path) ==
  LET dot == lastIndexOf(path, ".") IN
  IF dot = 0 THEN <<>> ELSE slice(path, 1, dot - 1)

\* ------------------------------------------------------------------------
\* The DOM.  nodes maps an element's identity to the element.  An identity
\* is [c, k, g, i]: the i-th element of the page as parsed (c = 0), or the
\* i-th element, in document order, of the g-th instantiation of container
\* c's template for key k.  Elements that are detached and that no registry
\* entry, subscription or rendered map refers to are garbage and are dropped
\* (collect).
\* An attribute is [name, suf, val]: name is the attribute's name, or, for
\* the two dynamic families, the prefix "bind-data-" / "bind-attr-" with the
\* rest of the name in suf.
\* ------------------------------------------------------------------------

\* the i-th element of the page as parsed
S(i) == [c |-> 0, k |-> <<>>, g |-> 0, i |-> i]

\* no element (null)
None == S(0)

Attr(name, val) == [name |-> name, suf |-> "", val |-> val]
AttrFam(name, suf, val) == [name |-> name, suf |-> suf, val |-> val]

\* an element as the HTML parser leaves it
El(parent, kids, tag, attrs, content) ==
  [parent |-> parent, kids |-> kids, tag |-> tag, attrs |-> attrs,
   content |-> content, text |-> <<>>, value |-> <<>>, checked |-> FALSE,
   dataset |-> [d \in {} |-> <<>>], bound |-> FALSE, events |-> <<>>,
   top |-> FALSE, hidden |-> FALSE, frames |-> 0]

\* a template's element: tag, attributes and child elements
Tpl(tag, attrs, kids) == [tag |-> tag, attrs |-> attrs, kids |-> kids]

\* node.hasAttribute(name)
hasAttribute(node, name) ==
  \E i \in 1..Len(node.attrs) : node.attrs[i].name = name /\ node.attrs[i].suf = ""

\* node.getAttribute(name)
getAttribute(node, name) ==
  LET i == CHOOSE j \in 1..Len(node.attrs) :
             node.attrs[j].name = name /\ node.attrs[j].suf = ""
  IN node.attrs[i].val

\* a.contains(b): b is a or a descendant of a
RECURSIVE contains(_, _, _)
contains(nodes, a, b) ==
  IF b = None THEN FALSE
  ELSE IF a = b THEN TRUE
  ELSE contains(nodes, a, nodes[b].parent)

\* n.closest('[name]'): the nearest inclusive ancestor bearing the attribute
RECURSIVE closest(_, _, _)
closest(nodes, n, name) ==
  IF n = None THEN None
  ELSE IF hasAttribute(nodes[n], name) THEN n
  ELSE closest(nodes, nodes[n].parent, name)

\* the elements below the given children, in document order
RECURSIVE descList(_, _)
descList(nodes, ks) ==
  IF ks = <<>> THEN <<>>
  ELSE << Head(ks) >> \o descList(nodes, nodes[Head(ks)].kids) \o descList(nodes, Tail(ks))

\* el.querySelectorAll('*')
querySelectorAll(nodes, el) == descList(nodes, nodes[el].kids)

\* node.textContent = s: the element's children are replaced by the text
setTextContent(nodes, n, s) ==
  [i \in DOMAIN nodes |->
     IF i = n THEN [nodes[i] EXCEPT !.text = s, !.kids = <<>>]
     ELSE IF nodes[i].parent = n THEN [nodes[i] EXCEPT !.parent = None]
     ELSE nodes[i]]

\* node.setAttribute(name, s)
setAttribute(node, name, s) ==
  IF hasAttribute(node, name)
  THEN [node EXCEPT !.attrs = [i \in 1..Len(node.attrs) |->
          IF node.attrs[i].name = name /\ node.attrs[i].suf = ""
          THEN Attr(name, s) ELSE node.attrs[i]]]
  ELSE [node EXCEPT !.attrs = Append(node.attrs, Attr(name, s))]

\* node.removeAttribute(name)
removeAttribute(node, name) ==
  [node EXCEPT !.attrs = SelectSeq(node.attrs, LAMBDA a : ~(a.name = name /\ a.suf = ""))]

\* node.dataset[name] = s
setDataset(node, name, s) ==
  [node EXCEPT !.dataset = [d \in DOMAIN node.dataset \cup {name} |->
                              IF d = name THEN s ELSE node.dataset[d]]]

\* el.remove()
removeEl(nodes, el) ==
  LET p == nodes[el].parent IN
  [i \in DOMAIN nodes |->
     IF i = el THEN [nodes[i] EXCEPT !.parent = None]
     ELSE IF i = p THEN [nodes[i] EXCEPT !.kids = SelectSeq(@, LAMBDA k : k # el)]
     ELSE nodes[i]]

\* container.appendChild(el) for a detached el
appendChild(nodes, container, el) ==
  [i \in DOMAIN nodes |->
     IF i = el THEN [nodes[i] EXCEPT !.parent = container]
     ELSE IF i = container THEN [nodes[i] EXCEPT !.kids = Append(@, el)]
     ELSE nodes[i]]

\* the elements of one instantiation
sameInstance(nodes, id) ==
  {n \in DOMAIN nodes : n.c = id.c /\ n.k = id.k /\ n.g = id.g}

\* the identity of the first element of a new instantiation of container c's
\* template for key k
newInstance(nodes, c, k) ==
  LET gens == {n.g : n \in {x \in DOMAIN nodes : x.c = c.i /\ x.k = k}} IN
  [c |-> c.i, k |-> k, i |-> 1,
   g |-> CHOOSE g \in 0..Cardinality(gens) :
           g \notin gens /\ \A h \in 0..(g - 1) : h \in gens]

\* the elements parsed from markup (tmp.innerHTML = html), added to nodes:
\* desc becomes element id below parent, its descendants follow it
RECURSIVE buildEl(_, _, _, _)
RECURSIVE buildKids(_, _, _, _)
buildKids(nodes, descs, parent, base) ==
  IF descs = <<>> THEN nodes
  ELSE LET id == [base EXCEPT !.i = Cardinality(sameInstance(nodes, base)) + 1]
           built == buildEl(nodes, Head(descs), parent, id)
           linked == [built EXCEPT ![parent].kids = Append(@, id)]
       IN buildKids(linked, Tail(descs), parent, base)

buildEl(nodes, desc, parent, id) ==
  LET self == [n \in DOMAIN nodes \cup {id} |->
                 IF n = id THEN El(parent, <<>>, desc.tag, desc.attrs, <<>>)
                 ELSE nodes[n]]
  IN buildKids(self, desc.kids, id, id)

\* the topmost ancestor of n
RECURSIVE rootOf(_, _)
rootOf(nodes, n) ==
  IF nodes[n].parent = None THEN n ELSE rootOf(nodes, nodes[n].parent)

\* ------------------------------------------------------------------------
\* The running system as one record: the store's data and its live
\* subscriptions, the DOM, the mount instances, and what the current step
\* has done so far: the raw actions executed, the paths written, the store
\* states shown to subscribers, the revocation handles invoked again after
\* they had already revoked their subscription.
\* A subscription, and the handle that revokes it, is [path, cb].
\* ------------------------------------------------------------------------

\* store.subscribe(path, cb)
subscribe(w, path, cb) ==
  [w EXCEPT !.listeners = Append(@, [path |-> path, cb |-> cb])]

\* the revocation handle h returned by store.subscribe is invoked
unsub(w, h) ==
  IF \E i \in 1..Len(w.listeners) : w.listeners[i] = h
  THEN [w EXCEPT !.listeners = SelectSeq(@, LAMBDA l : l # h)]
  ELSE [w EXCEPT !.again = Append(@, h)]

\* requestAnimationFrame(cb) for the callback of the focus binding of node
\* n: one more callback of n waits for the next animation frame
requestAnimationFrame(w, n) == [w EXCEPT !.nodes[n].frames = @ + 1]

\* node.offsetParent !== null: n is in the document and neither it nor an
\* ancestor is left out of the layout (display: none)
hasOffsetParent(nodes, n) ==
  /\ nodes[rootOf(nodes, n)].top
  /\ \A a \in DOMAIN nodes : contains(nodes, a, n) => ~nodes[a].hidden

\* the animation frame firing the waiting callbacks without the test of
\* offsetParent
runFrameUnchecked(w) ==
  [w EXCEPT
     !.focus = @ \cup {n \in DOMAIN w.nodes : w.nodes[n].frames > 0},
     !.nodes = [n \in DOMAIN @ |-> [@[n] EXCEPT !.frames = 0]]]

\* the browser's animation frame: every waiting callback of a focus binding
\* runs, if (node.offsetParent !== null) node.focus()
runFrame(w) ==
  [w EXCEPT
     !.focus = @ \cup {n \in DOMAIN w.nodes :
                         w.nodes[n].frames > 0 /\ hasOffsetParent(w.nodes, n)},
     !.nodes = [n \in DOMAIN @ |-> [@[n] EXCEPT !.frames = 0]]]

\* the update functions with the string form taken of truthy values only
\* (v ? String(v) : '')
updateFnTruthy(w, cb, v) ==
  LET n == cb.node
      s == IF truthy(v) THEN toString(v) ELSE <<>>
  IN CASE cb.upd = "text" ->
            [w EXCEPT !.nodes = setTextContent(@, n, s)]
       [] cb.upd = "value" ->
            IF w.nodes[n].value # s THEN [w EXCEPT !.nodes[n].value = s] ELSE w
       [] cb.upd = "data" ->
            [w EXCEPT !.nodes[n] = setDataset(@, cb.name, s)]
       [] cb.upd = "attr" ->
            IF truthy(v)
            THEN [w EXCEPT !.nodes[n] = setAttribute(@, cb.name, toString(v))]
            ELSE [w EXCEPT !.nodes[n] = removeAttribute(@, cb.name)]
       [] OTHER -> w

\* the update functions of the bindings, applied to value v
updateFn(w, cb, v) ==
  LET n == cb.node
      s == IF ~isNullish(v) THEN toString(v) ELSE <<>>
  IN CASE cb.upd = "text" ->
            [w EXCEPT !.nodes = setTextContent(@, n, s)]
       [] cb.upd = "value" ->
            IF hasAttribute(w.nodes[n], "type")
               /\ getAttribute(w.nodes[n], "type") = << "checkbox" >>
            THEN IF w.nodes[n].checked # truthy(v)
                 THEN [w EXCEPT !.nodes[n].checked = truthy(v)] ELSE w
            ELSE IF w.nodes[n].value # s
                 THEN [w EXCEPT !.nodes[n].value = s] ELSE w
       [] cb.upd = "data" ->
            [w EXCEPT !.nodes[n] = setDataset(@, cb.name, s)]
       [] cb.upd = "attr" ->
            IF ~isNullish(v)
            THEN [w EXCEPT !.nodes[n] = setAttribute(@, cb.name, toString(v))]
            ELSE [w EXCEPT !.nodes[n] = removeAttribute(@, cb.name)]
       [] cb.upd = "focus" ->
            IF truthy(v) THEN requestAnimationFrame(w, n) ELSE w
       [] OTHER -> w

\* addBinding that applies and subscribes but records nothing in the registry
addBindingUnrecorded(w, m, path, node, upd, name) ==
  LET cb == [kind |-> "bind", upd |-> upd, node |-> node, name |-> name, mount |-> m]
  IN subscribe(updateFn(w, cb, get(w.state, path)), path, cb)

\* addBinding(path, node, updateFn) of mount m
addBinding(w, m, path, node, upd, name) ==
  LET cb == [kind |-> "bind", upd |-> upd, node |-> node, name |-> name, mount |-> m]
      applied == updateFn(w, cb, get(w.state, path))
      subscribed == subscribe(applied, path, cb)
  IN [subscribed EXCEPT !.mounts[m].subs =
        Append(@, [node |-> node, unsub |-> [path |-> path, cb |-> cb]])]

\* cleanupWithin(container) of mount m: the loop from the last entry down
RECURSIVE cleanupLoop(_, _, _, _)
cleanupLoop(w, m, container, i) ==
  IF i < 1 THEN w
  ELSE IF contains(w.nodes, container, w.mounts[m].subs[i].node)
  THEN LET revoked == unsub(w, w.mounts[m].subs[i].unsub)
           spliced == [revoked EXCEPT !.mounts[m].subs =
                         SubSeq(@, 1, i - 1) \o SubSeq(@, i + 1, Len(@))]
       IN cleanupLoop(spliced, m, container, i - 1)
  ELSE cleanupLoop(w, m, container, i - 1)

\* cleanupWithin with the loop running from the first entry up while it
\* splices: the entry after a removed one is passed over
RECURSIVE cleanupForward(_, _, _, _)
cleanupForward(w, m, container, i) ==
  IF i > Len(w.mounts[m].subs) THEN w
  ELSE IF contains(w.nodes, container, w.mounts[m].subs[i].node)
  THEN LET revoked == unsub(w, w.mounts[m].subs[i].unsub)
           spliced == [revoked EXCEPT !.mounts[m].subs =
                         SubSeq(@, 1, i - 1) \o SubSeq(@, i + 1, Len(@))]
       IN cleanupForward(spliced, m, container, i + 1)
  ELSE cleanupForward(w, m, container, i + 1)

cleanupWithinForward(w, m, container) == cleanupForward(w, m, container, 1)

cleanupWithin(w, m, container) ==
  cleanupLoop(w, m, container, Len(w.mounts[m].subs))

\* the elements something still refers to: registry entries, the nodes of
\* live bindings, rendered maps, callbacks waiting for the animation frame
referenced(w) ==
  {n \in DOMAIN w.nodes : w.nodes[n].frames > 0} \cup
  UNION {{w.mounts[m].subs[i].node : i \in 1..Len(w.mounts[m].subs)} :
           m \in 1..Len(w.mounts)}
  \cup {w.listeners[i].cb.node :
          i \in {j \in 1..Len(w.listeners) : w.listeners[j].cb.kind = "bind"}}
  \cup UNION {UNION {{w.mounts[m].colls[c].rendered[i].el :
                        i \in 1..Len(w.mounts[m].colls[c].rendered)} :
                     c \in 1..Len(w.mounts[m].colls)} :
                m \in 1..Len(w.mounts)}

\* garbage collection: a detached tree none of whose elements is referred to
\* is dropped
collect(w) ==
  LET keep == {rootOf(w.nodes, n) : n \in referenced(w)}
              \cup {n \in DOMAIN w.nodes : w.nodes[n].top}
  IN [w EXCEPT !.nodes = [n \in {x \in DOMAIN w.nodes : rootOf(w.nodes, x) \in keep}
                            |-> w.nodes[n]]]

\* ------------------------------------------------------------------------
\* mount(): the binding scanner
\* ------------------------------------------------------------------------

\* node.addEventListener(type, listener) by mount m (path: the bound path of
\* a bind-value input listener)
addEventListener(w, n, type, m, path) ==
  [w EXCEPT !.nodes[n].events = Append(@, [type |-> type, mount |-> m, path |-> path])]

\* the loop over Array.from(node.attributes): bind-data-* and bind-attr-*
RECURSIVE scanAttrs(_, _, _, _)
scanAttrs(w, m, n, attrs) ==
  IF attrs = <<>> THEN w
  ELSE LET a == Head(attrs)
           next == IF a.name = "bind-data-" THEN addBinding(w, m, a.val, n, "data", a.suf)
                   ELSE IF a.name = "bind-attr-" THEN addBinding(w, m, a.val, n, "attr", a.suf)
                   ELSE w
       IN scanAttrs(next, m, n, Tail(attrs))

\* scanBindings: the bind-text branch for one node
scanText(w, m, n) ==
  IF hasAttribute(w.nodes[n], "bind-text")
  THEN addBinding(w, m, getAttribute(w.nodes[n], "bind-text"), n, "text", "")
  ELSE w

\* scanBindings: the bind-value branch for one node, with its input listener
scanValue(w, m, n) ==
  IF hasAttribute(w.nodes[n], "bind-value")
  THEN addEventListener(
         addBinding(w, m, getAttribute(w.nodes[n], "bind-value"), n, "value", ""),
         n, "input", m, getAttribute(w.nodes[n], "bind-value"))
  ELSE w

\* scanBindings: the bind-focus branch for one node
scanFocus(w, m, n) ==
  IF hasAttribute(w.nodes[n], "bind-focus")
  THEN addBinding(w, m, getAttribute(w.nodes[n], "bind-focus"), n, "focus", "")
  ELSE w

\* scanBindings: the loop over the attributes of one node
scanAttributes(w, m, n) == scanAttrs(w, m, n, w.nodes[n].attrs)

\* the body of scanBindings' loop without the BOUND test and mark
scanNodeUnmarked(w, m, n) ==
  scanAttributes(scanFocus(scanValue(scanText(w, m, n), m, n), m, n), m, n)

\* the body of scanBindings' loop for one node
scanNode(w, m, n) ==
  IF w.nodes[n].bound THEN w
  ELSE scanAttributes(
         scanFocus(
           scanValue(
             scanText([w EXCEPT !.nodes[n].bound = TRUE], m, n),
             m, n),
           m, n),
         m, n)

RECURSIVE scanList(_, _, _)
scanList(w, m, list) ==
  IF list = <<>> THEN w
  ELSE scanList(scanNode(w, m, Head(list)), m, Tail(list))

\* scanBindings(el) of mount m
scanBindings(w, m, el) ==
  scanList(w, m, << el >> \o querySelectorAll(w.nodes, el))

\* ------------------------------------------------------------------------
\* mount(): keyed collections
\* ------------------------------------------------------------------------

RECURSIVE replaceAll(_, _, _)
replaceAll(s, tok, rep) ==
  IF s = <<>> THEN <<>>
  ELSE (IF Head(s) = tok THEN rep ELSE << Head(s) >>) \o replaceAll(Tail(s), tok, rep)

\* resolve(html, key) on one attribute value
resolveStr(s, key, collPath) ==
  replaceAll(replaceAll(s, "{_key}", key), "{_path}", collPath \o << "." >> \o key)

\* resolve(html, key): the template markup with both placeholders substituted
RECURSIVE resolve(_, _, _)
resolve(html, key, collPath) ==
  [i \in 1..Len(html) |->
     Tpl(html[i].tag,
         [j \in 1..Len(html[i].attrs) |->
            [html[i].attrs[j] EXCEPT !.val = resolveStr(@, key, collPath)]],
         resolve(html[i].kids, key, collPath))]

\* the keys of the rendered map, in insertion order
renderedKeys(rendered) == [i \in 1..Len(rendered) |-> rendered[i].k]

inSeq(x, s) == \E i \in 1..Len(s) : s[i] = x

\* the removal of a rendered entry without revoking the bindings within it
removeItemKeepBindings(w, m, ci, e) ==
  [w EXCEPT
     !.nodes = removeEl(@, e.el),
     !.mounts[m].colls[ci].rendered = SelectSeq(@, LAMBDA r : r.k # e.k)]

\* reconcile(): the removal of one rendered entry whose key is gone
removeItem(w, m, ci, e) ==
  [cleanupWithin(w, m, e.el) EXCEPT
     !.nodes = removeEl(@, e.el),
     !.mounts[m].colls[ci].rendered = SelectSeq(@, LAMBDA r : r.k # e.k)]

\* reconcile(): "Remove deleted items"
RECURSIVE removeDeleted(_, _, _, _, _)
removeDeleted(w, m, ci, keys, entries) ==
  IF entries = <<>> THEN w
  ELSE IF ~inSeq(Head(entries).k, keys)
  THEN removeDeleted(removeItem(w, m, ci, Head(entries)), m, ci, keys, Tail(entries))
  ELSE removeDeleted(w, m, ci, keys, Tail(entries))

\* reconcile(): "Add new items"
RECURSIVE addNew(_, _, _, _)
addNew(w, m, ci, keys) ==
  IF keys = <<>> THEN w
  ELSE LET k == Head(keys)
           c == w.mounts[m].colls[ci]
       IN IF inSeq(k, renderedKeys(c.rendered)) THEN addNew(w, m, ci, Tail(keys))
          ELSE LET html == resolve(c.templateHTML, k, c.collPath) IN
               IF html = <<>> THEN addNew(w, m, ci, Tail(keys))
               ELSE LET el == newInstance(w.nodes, c.container, k)
                        built == buildEl(w.nodes, html[1], None, el)
                        tagged == [built EXCEPT ![el] = setDataset(@, "key", k)]
                        placed == [w EXCEPT
                           !.nodes = appendChild(tagged, c.container, el),
                           !.mounts[m].colls[ci].rendered = Append(@, [k |-> k, el |-> el])]
                    IN addNew(scanBindings(placed, m, el), m, ci, Tail(keys))

\* keys = Object.keys(coll).filter(k => coll[k] != null)
presentKeys(coll) ==
  SelectSeq(keysOf(coll), LAMBDA k : ~isNullish(prop(coll, k)))

\* reconcile() without the fast bail
reconcileNoBail(w, m, ci) ==
  LET c == w.mounts[m].colls[ci]
      got == get(w.state, c.collPath)
      coll == IF truthy(got) THEN got ELSE EmptyObj
      keys == presentKeys(coll)
      keyStr == join(keys, ",")
  IN addNew(
       removeDeleted([w EXCEPT !.mounts[m].colls[ci].lastKeyStr = keyStr],
                     m, ci, keys, c.rendered),
       m, ci, keys)

\* reconcile() of collection ci of mount m
reconcile(w, m, ci) ==
  LET c == w.mounts[m].colls[ci]
      got == get(w.state, c.collPath)
      coll == IF truthy(got) THEN got ELSE EmptyObj
      keys == presentKeys(coll)
      keyStr == join(keys, ",")
  IN IF keyStr = c.lastKeyStr THEN w
     ELSE addNew(
            removeDeleted([w EXCEPT !.mounts[m].colls[ci].lastKeyStr = keyStr],
                          m, ci, keys, c.rendered),
            m, ci, keys)

\* ------------------------------------------------------------------------
\* The store's notification passes
\* ------------------------------------------------------------------------

\* one subscriber called back: it is shown the store as it is now
call(w, l) ==
  LET seen == [w EXCEPT !.obs = @ \cup {w.state}] IN
  IF l.cb.kind = "bind" THEN updateFn(seen, l.cb, get(w.state, l.path))
  ELSE reconcile(seen, l.cb.mount, l.cb.coll)

\* the callbacks of a pass; one revoked earlier in the pass is not called
RECURSIVE runCallbacks(_, _)
runCallbacks(w, ls) ==
  IF ls = <<>> THEN w
  ELSE IF inSeq(Head(ls), w.listeners)
  THEN runCallbacks(call(w, Head(ls)), Tail(ls))
  ELSE runCallbacks(w, Tail(ls))

\* the subscriptions a write to path notifies: those of the path itself, then
\* the wildcard subscriptions over the children of the path's parent
subscribersOf(w, path) ==
  SelectSeq(w.listeners, LAMBDA l : l.path = path)
  \o SelectSeq(w.listeners, LAMBDA l : lastIndexOf(path, ".") # 0
                                       /\ l.path = wildcardOf(parentPath(path)))

notify(w, path) == runCallbacks(w, subscribersOf(w, path))

\* p is q or lies below q
below(p, q) ==
  p = q \/ (Len(p) > Len(q) /\ SubSeq(p, 1, Len(q)) = q /\ p[Len(q) + 1] = ".")

\* the other paths at which a write to path shows, given the pairs of paths
\* that hold one and the same object: the store updates objects in place
mirrors(shared, path) ==
  {pr[2] \o SubSeq(path, Len(pr[1]) + 1, Len(path)) :
     pr \in {x \in shared \cup {<< y[2], y[1] >> : y \in shared} :
               below(path, x[1]) /\ path # x[1]}}

RECURSIVE writeAll(_, _, _)
writeAll(root, paths, v) ==
  IF paths = {} THEN root
  ELSE LET p == CHOOSE x \in paths : TRUE
       IN writeAll(write(root, p, v), paths \ {p}, v)

\* a write landing in the store without notification.  wr.ref is the path
\* of the store object that wr.value is (the empty path for a value that is
\* no object of the store: a primitive or a newly made object).
land(w, wr) ==
  [w EXCEPT !.state = writeAll(write(@, wr.path, wr.value),
                               mirrors(w.shared, wr.path), wr.value),
            !.shared = {x \in @ : ~below(x[1], wr.path) /\ ~below(x[2], wr.path)}
                       \cup (IF wr.ref = <<>> THEN {} ELSE {<< wr.path, wr.ref >>}),
            !.writes = Append(@, wr.path)]

\* store.set(path, value) for such a value
storeSet(w, path, v) ==
  notify(land(w, [path |-> path, value |-> v, ref |-> <<>>]), path)

RECURSIVE landAll(_, _)
landAll(w, ws) ==
  IF ws = <<>> THEN w ELSE landAll(land(w, Head(ws)), Tail(ws))

RECURSIVE flush(_, _)
flush(w, ws) ==
  IF ws = <<>> THEN w ELSE flush(notify(w, Head(ws).path), Tail(ws))

\* store.batch(fn) for an fn that issues the writes ws: all of them land,
\* then one notification pass runs
storeBatch(w, ws) == flush(landAll(w, ws), ws)

\* ------------------------------------------------------------------------
\* mount(): delegated action execution
\* ------------------------------------------------------------------------

\* the value a pushed source's field is reset to
resetValue(v) ==
  IF typeOf(v) = "string" THEN Str(<<>>)
  ELSE IF typeOf(v) = "boolean" THEN Bool(FALSE)
  ELSE IF typeOf(v) = "number" THEN Num(0)
  ELSE Null

\* `t_${Date.now()}`
pushKey(now) == << "t", "_" >> \o numToStr(now)

\* the push's writes with the source object itself written under the new key
pushWritesUncloned(path, sourcePath, src, now) ==
  << [path |-> path \o << "." >> \o pushKey(now), value |-> src, ref |-> sourcePath] >>
  \o [i \in 1..Len(keysOf(src)) |->
        [path |-> sourcePath \o << "." >> \o keysOf(src)[i],
         value |-> resetValue(prop(src, keysOf(src)[i])), ref |-> <<>>]]

\* the writes issued inside the push's batch, in order
pushWrites(path, sourcePath, src, now) ==
  << [path |-> path \o << "." >> \o pushKey(now), value |-> jsonClone(src),
       ref |-> <<>>] >>
  \o [i \in 1..Len(keysOf(src)) |->
        [path |-> sourcePath \o << "." >> \o keysOf(src)[i],
         value |-> resetValue(prop(src, keysOf(src)[i])), ref |-> <<>>]]

\* the push's writes issued one store.set after the other, outside a batch
RECURSIVE setEach(_, _)
setEach(w, ws) ==
  IF ws = <<>> THEN w
  ELSE setEach(notify(land(w, Head(ws)), Head(ws).path), Tail(ws))

executePushUnbatched(w, path, sourcePath, now) ==
  IF ~truthy(sourcePath) THEN w
  ELSE LET src == get(w.state, sourcePath.s) IN
       IF ~truthy(src) \/ typeOf(src) # "object" THEN w
       ELSE setEach(w, pushWrites(path, sourcePath.s, src, now))

\* executeSet: the push branch
executePush(w, path, sourcePath, now) ==
  IF ~truthy(sourcePath) THEN w
  ELSE LET src == get(w.state, sourcePath.s) IN
       IF ~truthy(src) \/ typeOf(src) # "object" THEN w
       ELSE storeBatch(w, pushWrites(path, sourcePath.s, src, now))

\* the parent rebuilt without the key
RECURSIVE withoutKey(_, _, _)
withoutKey(parent, ks, key) ==
  IF ks = <<>> THEN EmptyObj
  ELSE LET k == ks[Len(ks)]
           rest == withoutKey(parent, SubSeq(ks, 1, Len(ks) - 1), key)
       IN IF k # key THEN setProp(rest, k, prop(parent, k)) ELSE rest

\* the delete branch with the key taken from the separator on
executeDeleteFromDot(w, path) ==
  LET dot == lastIndexOf(path, ".") IN
  IF dot = 0 THEN w
  ELSE LET parentP == slice(path, 1, dot - 1)
           key == slice(path, dot, Len(path))
           got == get(w.state, parentP)
           parent == IF truthy(got) THEN got ELSE EmptyObj
       IN storeSet(w, parentP, withoutKey(parent, keysOf(parent), key))

\* executeSet: the delete branch
executeDelete(w, path) ==
  LET dot == lastIndexOf(path, ".") IN
  IF dot = 0 THEN w
  ELSE LET parentP == slice(path, 1, dot - 1)
           key == slice(path, dot + 1, Len(path))
           got == get(w.state, parentP)
           parent == IF truthy(got) THEN got ELSE EmptyObj
       IN storeSet(w, parentP, withoutKey(parent, keysOf(parent), key))

\* executeSet(raw), Date.now() reading now
executeSet(w, raw, now) ==
  LET parsed == parseSetExpr(raw)
      push == parsePush(parsed.expr)
      ran == [w EXCEPT !.raws = Append(@, raw)]
  IN IF parsed.expr = Str(SDelete) THEN executeDelete(ran, parsed.path)
     ELSE IF truthy(push) THEN executePush(ran, parsed.path, push.source, now)
     ELSE storeSet(ran, parsed.path, evalExpr(parsed.expr, get(ran.state, parsed.path)))

\* the listeners' body looking for the attribute on the event target only
onActionTargetOnly(w, root, attr, target, now) ==
  IF hasAttribute(w.nodes[target], attr) /\ contains(w.nodes, root, target)
  THEN executeSet(w, getAttribute(w.nodes[target], attr), now)
  ELSE w

\* the body shared by the three delegated listeners of the mount on root
onAction(w, root, attr, target, now) ==
  LET t == closest(w.nodes, target, attr) IN
  IF t # None /\ contains(w.nodes, root, t)
  THEN executeSet(w, getAttribute(w.nodes[t], attr), now)
  ELSE w

\* the listeners with the input listener writing node.value whatever the
\* type of the control
handleValueOnly(w, n, l, ev, now) ==
  CASE l.type = "click" -> onAction(w, n, "set", ev.target, now)
    [] l.type = "focusout" -> onAction(w, n, "set-blur", ev.target, now)
    [] l.type = "keydown" ->
         IF ev.key # "Enter" THEN w ELSE onAction(w, n, "set-enter", ev.target, now)
    [] l.type = "input" -> storeSet(w, l.path, Str(w.nodes[n].value))
    [] OTHER -> w

\* listener l, registered on element n, receives event ev
handle(w, n, l, ev, now) ==
  CASE l.type = "click" -> onAction(w, n, "set", ev.target, now)
    [] l.type = "focusout" -> onAction(w, n, "set-blur", ev.target, now)
    [] l.type = "keydown" ->
         IF ev.key # "Enter" THEN w ELSE onAction(w, n, "set-enter", ev.target, now)
    [] l.type = "input" ->
         storeSet(w, l.path,
                  IF hasAttribute(w.nodes[n], "type")
                     /\ getAttribute(w.nodes[n], "type") = << "checkbox" >>
                  THEN Bool(w.nodes[n].checked) ELSE Str(w.nodes[n].value))
    [] OTHER -> w

\* the propagation path of an event: the target, then its ancestors
RECURSIVE bubble(_, _)
bubble(nodes, n) ==
  IF n = None THEN <<>> ELSE << n >> \o bubble(nodes, nodes[n].parent)

RECURSIVE runListeners(_, _, _, _, _)
runListeners(w, n, ls, ev, now) ==
  IF ls = <<>> THEN w
  ELSE runListeners(IF Head(ls).type = ev.type THEN handle(w, n, Head(ls), ev, now) ELSE w,
                    n, Tail(ls), ev, now)

RECURSIVE propagate(_, _, _, _)
propagate(w, path, ev, now) ==
  IF path = <<>> THEN w
  ELSE propagate(runListeners(w, Head(path), w.nodes[Head(path)].events, ev, now),
                 Tail(path), ev, now)

\* target.dispatchEvent(ev) for a bubbling event
dispatchEvent(w, ev, now) == propagate(w, bubble(w.nodes, ev.target), ev, now)

\* ------------------------------------------------------------------------
\* mount() and the cleanup function it returns
\* ------------------------------------------------------------------------

\* container.querySelector('template'): the first template below it, or None
querySelectorTemplate(nodes, container) ==
  LET ds == SelectSeq(querySelectorAll(nodes, container),
                      LAMBDA n : nodes[n].tag = "template")
  IN IF ds = <<>> THEN None ELSE ds[1]

\* setupCollection(container) of mount m
setupCollection(w, m, container) ==
  LET has == hasAttribute(w.nodes[container], "each")
      collPath == IF has THEN getAttribute(w.nodes[container], "each") ELSE <<>>
      tpl == querySelectorTemplate(w.nodes, container)
  IN IF collPath = <<>> \/ tpl = None THEN w
     ELSE LET ci == Len(w.mounts[m].colls) + 1
              cb == [kind |-> "reconcile", mount |-> m, coll |-> ci]
              made == [w EXCEPT !.mounts[m].colls = Append(@,
                         [container |-> container, collPath |-> collPath,
                          templateHTML |-> w.nodes[tpl].content,
                          rendered |-> <<>>, lastKeyStr |-> <<>>])]
              u1 == subscribe(made, collPath, cb)
              u2 == subscribe(u1, wildcardOf(collPath), cb)
              pushed == [u2 EXCEPT !.mounts[m].subs = @ \o
                           << [node |-> container, unsub |-> [path |-> collPath, cb |-> cb]],
                              [node |-> container,
                               unsub |-> [path |-> wildcardOf(collPath), cb |-> cb]] >>]
          IN reconcile(pushed, m, ci)

RECURSIVE setupAll(_, _, _)
setupAll(w, m, list) ==
  IF list = <<>> THEN w
  ELSE setupAll(setupCollection(w, m, Head(list)), m, Tail(list))

\* mount(store, root)
mount(w, root) ==
  LET m == Len(w.mounts) + 1
      started == [w EXCEPT !.mounts = Append(@,
                    [root |-> root, subs |-> <<>>, colls |-> <<>>, torn |-> FALSE])]
      click == addEventListener(started, root, "click", m, <<>>)
      focusout == addEventListener(click, root, "focusout", m, <<>>)
      keydown == addEventListener(focusout, root, "keydown", m, <<>>)
      eachs == SelectSeq(querySelectorAll(keydown.nodes, root),
                         LAMBDA n : hasAttribute(keydown.nodes[n], "each"))
  IN scanBindings(setupAll(keydown, m, eachs), m, root)

RECURSIVE unsubAll(_, _)
unsubAll(w, entries) ==
  IF entries = <<>> THEN w ELSE unsubAll(unsub(w, Head(entries).unsub), Tail(entries))

RECURSIVE unsubMounts(_, _)
unsubMounts(w, j) ==
  IF j > Len(w.mounts) THEN w
  ELSE unsubMounts(unsubAll(w, w.mounts[j].subs), j + 1)

\* the cleanup function over a registry that all mount instances share
teardownShared(w, m) ==
  [unsubMounts(w, 1) EXCEPT !.mounts[m].torn = TRUE]

\* the cleanup function mount() returned for mount m
teardown(w, m) ==
  [unsubAll(w, w.mounts[m].subs) EXCEPT !.mounts[m].torn = TRUE]

\* ------------------------------------------------------------------------
\* The page and the store the renderer is run against
\* ------------------------------------------------------------------------

PDraft == << "D" >>
PDraftX == << "D", ".", "x" >>
PTodos == << "T" >>
KeyA == << "a" >>
KeyB == << "b" >>

\* set="T:push(D)"
RawPush == PTodos \o << ":" >> \o SPush \o << "(" >> \o PDraft \o << ")" >>

\* <li bind-data-d="{_path}.d" set="{_path}"><span bind-text="{_path}.x"></span>
\*   <button set="{_path}:delete"></button></li>
ItemTemplate ==
  << Tpl("li", << AttrFam("bind-data-", "d", << "{_path}", ".", "d" >>),
                  Attr("set", << "{_path}" >>) >>,
         << Tpl("span", << Attr("bind-text", << "{_path}", ".", "x" >>) >>, <<>>),
            Tpl("button", << Attr("set", << "{_path}", ":" >> \o SDelete) >>, <<>>) >>) >>

RootEl(kids) == [El(None, kids, "div", <<>>, <<>>) EXCEPT !.top = TRUE]

\* <div><ul each="T"><template>...</template></ul>
\*      <input bind-value="D.x" set-enter="T:push(D)" set-blur="T:push(D)"></div>
\* <div><button set="T:push(D)"></button>
\*      <span bind-text="D.x" bind-attr-title="D.x"></span></div>
Page ==
  [n \in {S(i) : i \in 1..7} |->
     CASE n = S(1) -> RootEl(<< S(2), S(4) >>)
       [] n = S(2) -> El(S(1), << S(3) >>, "ul", << Attr("each", PTodos) >>, <<>>)
       [] n = S(3) -> El(S(2), <<>>, "template", <<>>, ItemTemplate)
       [] n = S(4) -> El(S(1), <<>>, "input",
                         << Attr("bind-value", PDraftX), Attr("set-enter", RawPush),
                            Attr("set-blur", RawPush) >>, <<>>)
       [] n = S(5) -> RootEl(<< S(6), S(7) >>)
       [] n = S(6) -> El(S(5), <<>>, "button", << Attr("set", RawPush) >>, <<>>)
       [] n = S(7) -> El(S(5), <<>>, "span",
                         << Attr("bind-text", PDraftX),
                            AttrFam("bind-attr-", "title", PDraftX) >>, <<>>)]

Item(x) == objOf(<< << << "x" >>, Str(<< x >>) >>, << << "d" >>, Bool(FALSE) >> >>)
Draft(x) == objOf(<< << << "x" >>, Str(<< x >>) >>, << << "d" >>, Bool(TRUE) >>,
                     << << "n" >>, Num(1) >>, << << "o" >>, EmptyObj >> >>)

InitialState ==
  objOf(<< << PDraft, Draft("q") >>,
           << PTodos, objOf(<< << KeyA, Item("p") >> >>) >> >>)

\* the writes the application makes to the store on its own
AppWrites ==
  { [path |-> PTodos, value |-> objOf(<< << KeyA, Item("q") >> >>)],
    [path |-> PTodos, value |-> objOf(<< << <<>>, Item("p") >> >>)],
    [path |-> PTodos \o << "." >> \o KeyA, value |-> Null],
    [path |-> PTodos \o << "." >> \o KeyB, value |-> Item("p")] }

PCount == << "c", "o", "u", "n", "t" >>
PFlag == << "f", "l", "a", "g" >>
RawIncrement == PCount \o << ":" >> \o SIncrement
RawDecrement == PCount \o << ":" >> \o SDecrement
RawToggle == PFlag \o << ":" >> \o SToggle

\* <div><div set="flag:toggle"><button set="count:increment"><b></b></button></div>
\*      <button set="count:decrement"></button>
\*      <span bind-text="count" bind-data-on="flag"></span></div>
CounterPage ==
  [n \in {S(i) : i \in 1..6} |->
     CASE n = S(1) -> RootEl(<< S(2), S(5), S(6) >>)
       [] n = S(2) -> El(S(1), << S(3) >>, "div", << Attr("set", RawToggle) >>, <<>>)
       [] n = S(3) -> El(S(2), << S(4) >>, "button", << Attr("set", RawIncrement) >>, <<>>)
       [] n = S(4) -> El(S(3), <<>>, "b", <<>>, <<>>)
       [] n = S(5) -> El(S(1), <<>>, "button", << Attr("set", RawDecrement) >>, <<>>)
       [] n = S(6) -> El(S(1), <<>>, "span",
                         << Attr("bind-text", PCount),
                            AttrFam("bind-data-", "on", PFlag) >>, <<>>)]

\* { count: 0, flag: false }
CounterState ==
  objOf(<< << PCount, Num(0) >>, << PFlag, Bool(FALSE) >> >>)

\* template markup with two root elements:
\* <li bind-text="{_path}.x"></li><p bind-text="{_path}.d"></p>
TwoRootTemplate ==
  << Tpl("li", << Attr("bind-text", << "{_path}", ".", "x" >>) >>, <<>>),
     Tpl("p", << Attr("bind-text", << "{_path}", ".", "d" >>) >>, <<>>) >>

\* <div><ul each="T"><template><li ...></li><p ...></p></template></ul></div>
\* <div><ul each="T"><template>no element</template></ul>
\*      <span bind-text="T.a.x"></span></div>
TemplatesPage ==
  [n \in {S(i) : i \in 1..7} |->
     CASE n = S(1) -> RootEl(<< S(2) >>)
       [] n = S(2) -> El(S(1), << S(3) >>, "ul", << Attr("each", PTodos) >>, <<>>)
       [] n = S(3) -> El(S(2), <<>>, "template", <<>>, TwoRootTemplate)
       [] n = S(4) -> RootEl(<< S(5), S(7) >>)
       [] n = S(5) -> El(S(4), << S(6) >>, "ul", << Attr("each", PTodos) >>, <<>>)
       [] n = S(6) -> El(S(5), <<>>, "template", <<>>, <<>>)
       [] n = S(7) -> El(S(4), <<>>, "span",
                         << Attr("bind-text", PTodos \o << ".", "a", ".", "x" >>) >>, <<>>)]

PDraftD == << "D", ".", "d" >>
PItemD == << "T", ".", "a", ".", "d" >>
ItemOn(x) == objOf(<< << << "x" >>, Str(<< x >>) >>, << << "d" >>, Bool(TRUE) >> >>)

\* <li><input bind-focus="{_path}.d"></li>
FocusTemplate ==
  << Tpl("li", <<>>,
         << Tpl("input", << Attr("bind-focus", << "{_path}", ".", "d" >>) >>, <<>>) >>) >>

\* <div><ul each="T"><template>...</template></ul>
\*      <div><input bind-focus="D.d"></div></div>
FocusPage ==
  [n \in {S(i) : i \in 1..5} |->
     CASE n = S(1) -> RootEl(<< S(2), S(4) >>)
       [] n = S(2) -> El(S(1), << S(3) >>, "ul", << Attr("each", PTodos) >>, <<>>)
       [] n = S(3) -> El(S(2), <<>>, "template", <<>>, FocusTemplate)
       [] n = S(4) -> El(S(1), << S(5) >>, "div", <<>>, <<>>)
       [] n = S(5) -> El(S(4), <<>>, "input", << Attr("bind-focus", PDraftD) >>, <<>>)]

\* the writes the application makes to the paths of the focus bindings and
\* to the collection
FocusWrites ==
  { [path |-> PDraftD, value |-> Bool(TRUE)],
    [path |-> PDraftD, value |-> Bool(FALSE)],
    [path |-> PItemD, value |-> Bool(TRUE)],
    [path |-> PItemD, value |-> Bool(FALSE)],
    [path |-> PTodos \o << "." >> \o KeyA, value |-> Null],
    [path |-> PTodos \o << "." >> \o KeyA, value |-> ItemOn("p")] }

\* <li><input bind-value="{_path}.x"></li>
FormTemplate ==
  << Tpl("li", <<>>,
         << Tpl("input", << Attr("bind-value", << "{_path}", ".", "x" >>) >>, <<>>) >>) >>

\* <div><input bind-value="D.x"><input type="checkbox" bind-value="D.d">
\*      <input bind-value="D.x">
\*      <ul each="T"><template>...</template></ul></div>
FormPage ==
  [n \in {S(i) : i \in 1..6} |->
     CASE n = S(1) -> RootEl(<< S(2), S(3), S(4), S(5) >>)
       [] n = S(2) -> El(S(1), <<>>, "input", << Attr("bind-value", PDraftX) >>, <<>>)
       [] n = S(3) -> El(S(1), <<>>, "input",
                         << Attr("type", << "checkbox" >>),
                            Attr("bind-value", PDraftD) >>, <<>>)
       [] n = S(4) -> El(S(1), <<>>, "input", << Attr("bind-value", PDraftX) >>, <<>>)
       [] n = S(5) -> El(S(1), << S(6) >>, "ul", << Attr("each", PTodos) >>, <<>>)
       [] n = S(6) -> El(S(5), <<>>, "template", <<>>, FormTemplate)]

\* what the user types into an input
Typed == { << "r" >> }

\* ------------------------------------------------------------------------
\* The state machine
\* ------------------------------------------------------------------------

\* pure is the last call made to one of the pure helpers, with its result
VARIABLES state, shared, listeners, nodes, mounts, now, pure

vars == << state, shared, listeners, nodes, mounts, now, pure >>

\* no call to a pure helper has been made
NoCall == [fn |-> "none"]

\* the system at the start of a step
World ==
  [state |-> state, shared |-> shared, listeners |-> listeners, nodes |-> nodes,
   mounts |-> mounts,
   obs |-> {}, writes |-> <<>>, raws |-> <<>>, again |-> <<>>, focus |-> {}]

\* the system at the end of a step
Commit(w) ==
  /\ state' = w.state
  /\ shared' = w.shared
  /\ listeners' = w.listeners
  /\ nodes' = collect(w).nodes
  /\ mounts' = w.mounts
  /\ pure' = pure

Init ==
  /\ state = InitialState
  /\ shared = {}
  /\ listeners = <<>>
  /\ nodes = Page
  /\ mounts = <<>>
  /\ now = 0
  /\ pure = NoCall

\* the counter page over a store with count = 0
InitCounter ==
  /\ state = CounterState
  /\ shared = {}
  /\ listeners = <<>>
  /\ nodes = CounterPage
  /\ mounts = <<>>
  /\ now = 0
  /\ pure = NoCall

\* n is in the document
connected(n) == nodes[rootOf(nodes, n)].top

click(n) == [type |-> "click", target |-> n, key |-> ""]
focusout(n) == [type |-> "focusout", target |-> n, key |-> ""]
keydown(n, key) == [type |-> "keydown", target |-> n, key |-> key]
input(n) == [type |-> "input", target |-> n, key |-> ""]

\* the application mounts the renderer on a root that has no running mount
Mount(r) ==
  /\ Len(mounts) < MaxMounts
  /\ nodes[r].top
  /\ \A m \in 1..Len(mounts) : mounts[m].root = r => mounts[m].torn
  /\ Commit(mount(World, r))
  /\ UNCHANGED now

\* the application mounts the renderer on a root for the first time
MountOnce(r) ==
  /\ nodes[r].top
  /\ \A m \in 1..Len(mounts) : mounts[m].root # r
  /\ Commit(mount(World, r))
  /\ UNCHANGED now

\* the application calls the cleanup function of mount m (again, if it likes)
Teardown(m) ==
  /\ Commit(teardown(World, m))
  /\ UNCHANGED now

\* the application writes to the store
AppSet(a) ==
  /\ Commit(storeSet(World, a.path, a.value))
  /\ UNCHANGED now

Click(n) ==
  /\ connected(n)
  /\ Commit(dispatchEvent(World, click(n), now))
  /\ UNCHANGED now

\* a click that leaves the counter within the range explored
ClickCounter(n) ==
  /\ Click(n)
  /\ get(state', PCount).n \in (0 - MaxCount)..MaxCount

\* n can hold the keyboard focus
focusable(n) == nodes[n].tag \in {"input", "button"}

FocusOut(n) ==
  /\ connected(n)
  /\ focusable(n)
  /\ Commit(dispatchEvent(World, focusout(n), now))
  /\ UNCHANGED now

KeyDown(n, key) ==
  /\ connected(n)
  /\ focusable(n)
  /\ Commit(dispatchEvent(World, keydown(n, key), now))
  /\ UNCHANGED now

\* the user types s into an input element
Input(n, s) ==
  /\ connected(n)
  /\ nodes[n].tag = "input"
  /\ nodes[n].value # s
  /\ Commit(dispatchEvent([World EXCEPT !.nodes[n].value = s], input(n), now))
  /\ UNCHANGED now

\* the clock advances
Tick ==
  /\ now < MaxClock
  /\ now' = now + 1
  /\ UNCHANGED << state, shared, listeners, nodes, mounts, pure >>

\* the application mounts, tears down and writes to the store, the user types
Next ==
  \/ \E r \in DOMAIN nodes : Mount(r)
  \/ \E m \in 1..Len(mounts) : Teardown(m)
  \/ \E a \in AppWrites : AppSet(a)
  \/ \E n \in DOMAIN nodes : \E s \in Typed : Input(n, s)

Spec == Init /\ [][Next]_vars

\* the application mounts each root once and tears down, the user clicks,
\* presses keys and moves the focus while the clock runs
NextActions ==
  \/ \E r \in DOMAIN nodes : MountOnce(r)
  \/ \E m \in 1..Len(mounts) : Teardown(m)
  \/ \E n \in DOMAIN nodes : Click(n)
  \/ \E n \in DOMAIN nodes : FocusOut(n)
  \/ \E n \in DOMAIN nodes : \E key \in {"Enter", "a"} : KeyDown(n, key)
  \/ Tick

SpecActions == Init /\ [][NextActions]_vars

\* the application mounts each root once, tears down and writes to the
\* store, the user types
NextOnce ==
  \/ \E r \in DOMAIN nodes : MountOnce(r)
  \/ \E m \in 1..Len(mounts) : Teardown(m)
  \/ \E a \in AppWrites : AppSet(a)
  \/ \E n \in DOMAIN nodes : \E s \in Typed : Input(n, s)

SpecOnce == Init /\ [][NextOnce]_vars

\* the page of templates that do not have one root element
InitTemplates ==
  /\ state = InitialState
  /\ shared = {}
  /\ listeners = <<>>
  /\ nodes = TemplatesPage
  /\ mounts = <<>>
  /\ now = 0
  /\ pure = NoCall

NextTemplates ==
  \/ \E r \in DOMAIN nodes : MountOnce(r)
  \/ \E m \in 1..Len(mounts) : Teardown(m)
  \/ \E a \in AppWrites : AppSet(a)

SpecTemplates == InitTemplates /\ [][NextTemplates]_vars

\* the page of focus bindings
InitFocus ==
  /\ state = InitialState
  /\ shared = {}
  /\ listeners = <<>>
  /\ nodes = FocusPage
  /\ mounts = <<>>
  /\ now = 0
  /\ pure = NoCall

\* the callbacks waiting for the animation frame in the DOM ns
waiting(ns) ==
  UNION {{<< n, i >> : i \in 1..ns[n].frames} : n \in DOMAIN ns}

\* no more than MaxFrames callbacks wait after the step
framesBounded == Cardinality(waiting(nodes')) <= MaxFrames

MountFocus(r) == MountOnce(r) /\ framesBounded

FocusSet(a) == AppSet(a) /\ framesBounded

\* the application takes element n out of the layout (display: none)
Hide(n) ==
  /\ connected(n)
  /\ nodes[n].tag \in {"div", "input"}
  /\ ~nodes[n].hidden
  /\ Commit([World EXCEPT !.nodes[n].hidden = TRUE])
  /\ UNCHANGED now

\* the application puts element n back into the layout
Unhide(n) ==
  /\ connected(n)
  /\ nodes[n].hidden
  /\ Commit([World EXCEPT !.nodes[n].hidden = FALSE])
  /\ UNCHANGED now

\* the browser reaches the next animation frame
Frame ==
  /\ \E n \in DOMAIN nodes : nodes[n].frames > 0
  /\ Commit(runFrame(World))
  /\ UNCHANGED now

NextFocus ==
  \/ \E r \in DOMAIN nodes : MountFocus(r)
  \/ \E m \in 1..Len(mounts) : Teardown(m)
  \/ \E a \in FocusWrites : FocusSet(a)
  \/ \E n \in DOMAIN nodes : Hide(n)
  \/ \E n \in DOMAIN nodes : Unhide(n)
  \/ Frame

SpecFocus == InitFocus /\ [][NextFocus]_vars

\* the page of form controls
InitForm ==
  /\ state = InitialState
  /\ shared = {}
  /\ listeners = <<>>
  /\ nodes = FormPage
  /\ mounts = <<>>
  /\ now = 0
  /\ pure = NoCall

isCheckbox(node) ==
  hasAttribute(node, "type") /\ getAttribute(node, "type") = << "checkbox" >>

\* the user ticks or unticks a checkbox
Check(n) ==
  /\ connected(n)
  /\ isCheckbox(nodes[n])
  /\ Commit(dispatchEvent([World EXCEPT !.nodes[n].checked = ~@], input(n), now))
  /\ UNCHANGED now

\* the user types into a text control
Type(n, s) ==
  /\ ~isCheckbox(nodes[n])
  /\ Input(n, s)

NextForm ==
  \/ \E r \in DOMAIN nodes : MountOnce(r)
  \/ \E m \in 1..Len(mounts) : Teardown(m)
  \/ \E a \in AppWrites : AppSet(a)
  \/ \E n \in DOMAIN nodes : \E s \in Typed : Type(n, s)
  \/ \E n \in DOMAIN nodes : Check(n)

SpecForm == InitForm /\ [][NextForm]_vars

\* the counter page: the application mounts the root once and tears down,
\* the user clicks
NextCounter ==
  \/ \E r \in DOMAIN nodes : MountOnce(r)
  \/ \E m \in 1..Len(mounts) : Teardown(m)
  \/ \E n \in DOMAIN nodes : ClickCounter(n)

SpecCounter == InitCounter /\ [][NextCounter]_vars

\* ------------------------------------------------------------------------
\* The pure helpers called on their own, as the unit tests call them
\* ------------------------------------------------------------------------

S42 == << "4", "2" >>
SZero == << "0" >>
SMinus5 == << "-", "5" >>
SPadded7 == << " ", "7", " " >>
SHello == << "h", "e", "l", "l", "o" >>
SQuotedX == << "\"", "x", "\"" >>
SBraces == << "{", "}" >>
SBlank == << " " >>
SCapIncrement == << "I", "n", "c", "r", "e", "m", "e", "n", "t" >>
S1a == << "1", "a" >>
SDash == << "-" >>
S5 == << "5" >>

\* the expressions evalExpr is called with
EvalExprs ==
  {Null, Undefined} \cup
  {Str(e) : e \in {SIncrement, SDecrement, SToggle, STrue, SFalse, SNull,
                    S42, SZero, SMinus5, SPadded7, SHello, <<>>, SBlank,
                    SQuotedX, SBraces, SCapIncrement, SDelete, SPush, S1a, SDash}}

\* the current values evalExpr is called with
Currents ==
  {Undefined, Null, Num(0), Num(5), Num(7), Num(0 - 1), NaN, Bool(TRUE), Bool(FALSE),
   Str(<<>>), Str(S5), Str(SHello), Str(SMinus5), EmptyObj}

SCountIncrement == << "c", "o", "u", "n", "t", ":" >> \o SIncrement
SCount == << "c", "o", "u", "n", "t" >>
SUserNameBob == << "u", ".", "n", ":", "B", "o", "b" >>
SPaddedBoth == << " ", " ", "c", " ", ":", " ", "i", " ", " " >>
STwoColons == << "a", ":", "b", ":", "c" >>
SSpacedColons == << " ", "a", ".", "b", " ", ":", " ", "c", " ", ":", " ", "d", " " >>
SPushDraft == SPush \o << "(", "d", ")" >>
SPushDotted == SPush \o << "(", "f", ".", "d", ")" >>
SPushPadded == SPush \o << "(", " ", "d", " ", ")" >>

\* the raw attribute values parseSetExpr is called with
SetRaws ==
  {SCountIncrement, SCount, SUserNameBob, SPaddedBoth, STwoColons, SSpacedColons,
   <<>>, << ":" >>, << ":", ":" >>, << ":", "x" >>, << "x", ":" >>, SBlank,
   << " ", ":", " " >>, << "T", ":" >> \o SPushDraft, << "a" >> \o SHello,
   << "a", ".", "b" >>, << "a", ":", ":", "b" >>, << "a", " ", "b", ":", "c", " ", "d" >>}

\* the expressions parsePush is called with
PushExprs ==
  {Null, Undefined} \cup
  {Str(e) : e \in {<<>>, SPush, SPushDraft, SPushDotted, SPushPadded,
                    SPush \o << "(", ")" >>, SPush \o << "(", " ", ")" >>,
                    SIncrement, SToggle, SDelete, SPush \o << "x" >>,
                    SPush \o << "(", "d" >>, SPushDraft \o << "x" >>,
                    << "x" >> \o SPushDraft, << " " >> \o SPush, SPush \o << " " >>,
                    << "P", "u", "s", "h" >>, SPushDraft \o << "(", "d", ")" >>,
                    SPush \o << "(", "(", "d", ")" >>, << "p", "u", "s" >>,
                    << "(", "d", ")" >>}}

\* the stores the helpers are called next to
InitPure ==
  /\ state \in {InitialState, CounterState}
  /\ shared = {}
  /\ listeners = <<>>
  /\ nodes \in {Page, CounterPage}
  /\ mounts = <<>>
  /\ now = 0
  /\ pure = NoCall

EvalExpr(expr, current) ==
  /\ pure' = [fn |-> "evalExpr", expr |-> expr, current |-> current,
              result |-> evalExpr(expr, current)]
  /\ UNCHANGED << state, shared, listeners, nodes, mounts, now >>

ParseSetExpr(raw) ==
  /\ pure' = [fn |-> "parseSetExpr", raw |-> raw, result |-> parseSetExpr(raw)]
  /\ UNCHANGED << state, shared, listeners, nodes, mounts, now >>

ParsePush(expr) ==
  /\ pure' = [fn |-> "parsePush", expr |-> expr, result |-> parsePush(expr)]
  /\ UNCHANGED << state, shared, listeners, nodes, mounts, now >>

NextPure ==
  \/ \E expr \in EvalExprs : \E current \in Currents : EvalExpr(expr, current)
  \/ \E raw \in SetRaws : ParseSetExpr(raw)
  \/ \E expr \in PushExprs : ParsePush(expr)

SpecPure == InitPure /\ [][NextPure]_vars

\* ------------------------------------------------------------------------
\* Properties: bindings, reconciler, registry, teardown
\* ------------------------------------------------------------------------

\* n is in the document (of the DOM ns)
connectedIn(ns, n) == n \in DOMAIN ns /\ ns[rootOf(ns, n)].top

\* the elements at or below r
under(ns, r) == {n \in DOMAIN ns : contains(ns, r, n)}

\* the string form of the value stored at path, empty if the value is absent
shown(path) ==
  LET v == get(state, path) IN IF isNullish(v) THEN <<>> ELSE toString(v)

\* store writes to probe the bindings with: the application's, and writes to
\* the leaves the item template binds
Probes ==
  AppWrites \cup
  UNION {{[path |-> PTodos \o << "." >> \o k \o << ".", "x" >>, value |-> Str(<< "z" >>)],
          [path |-> PTodos \o << "." >> \o k \o << ".", "d" >>, value |-> Bool(TRUE)]} :
           k \in {KeyA, KeyB, <<>>, pushKey(0)}}
  \cup {[path |-> PDraftX, value |-> Str(<< "z" >>)]}

\* C1: at every quiescent point, every element in the document that has a
\* live one-way text binding shows the string form of the value stored at the
\* bound path (the empty string if that value is absent).
C1_TextShowsValue ==
  \A i \in 1..Len(listeners) :
    (/\ listeners[i].cb.kind = "bind"
     /\ listeners[i].cb.upd = "text"
     /\ connected(listeners[i].cb.node))
      => nodes[listeners[i].cb.node].text = shown(listeners[i].path)

\* m is running and is the only mount there has been on its root
soleMount(m) ==
  /\ ~mounts[m].torn
  /\ \A j \in 1..Len(mounts) : mounts[j].root = mounts[m].root => j = m

\* C2: at every quiescent point, for every collection of a running mount, the
\* rendered map has exactly the keys whose value in the collection is not
\* absent, and the container holds exactly one rendered element per such key,
\* tagged with the key, and no other element besides its template.
C2_Converged ==
  \A m \in 1..Len(mounts) : soleMount(m) =>
    \A ci \in 1..Len(mounts[m].colls) :
      LET c == mounts[m].colls[ci]
          got == get(state, c.collPath)
          keys == presentKeys(IF truthy(got) THEN got ELSE EmptyObj)
          items == SelectSeq(nodes[c.container].kids,
                             LAMBDA n : nodes[n].tag # "template")
      IN /\ Len(c.rendered) = Len(keys)
         /\ {c.rendered[i].k : i \in 1..Len(c.rendered)} = {keys[i] : i \in 1..Len(keys)}
         /\ Len(items) = Len(keys)
         /\ {c.rendered[i].el : i \in 1..Len(c.rendered)} = {items[i] : i \in 1..Len(items)}
         /\ \A i \in 1..Len(c.rendered) :
              /\ "key" \in DOMAIN nodes[c.rendered[i].el].dataset
              /\ nodes[c.rendered[i].el].dataset["key"] = c.rendered[i].k

\* the elements a step that ends in w has taken out of the document
removedBy(w) ==
  {n \in DOMAIN nodes : connected(n) /\ n \in DOMAIN w.nodes /\ ~connectedIn(w.nodes, n)}

\* the elements the registries and the live bindings of w refer to
boundIn(w) ==
  UNION {{w.mounts[m].subs[i].node : i \in 1..Len(w.mounts[m].subs)} :
           m \in 1..Len(w.mounts)}
  \cup {w.listeners[i].cb.node :
          i \in {j \in 1..Len(w.listeners) : w.listeners[j].cb.kind = "bind"}}

\* C3: whenever the notification pass of a store write has a reconcile remove
\* an item's element, then afterwards no registry entry and no live
\* subscription refers to that element or to one below it, and no later store
\* write changes them.
C3_NoDanglingBindings ==
  \A a \in AppWrites :
    LET w == storeSet(World, a.path, a.value) IN
    \A n \in removedBy(w) :
      /\ n \notin boundIn(w)
      /\ \A b \in Probes : storeSet(w, b.path, b.value).nodes[n] = w.nodes[n]

\* a store write after which a reconcile has removed an item with bindings
C3_Witness ==
  \E a \in AppWrites :
    \E n \in removedBy(storeSet(World, a.path, a.value)) : n \in boundIn(World)

\* C4: cleanupWithin(container) removes from the registry exactly the entries
\* whose node is the container or below it and revokes exactly their
\* subscriptions; the other entries stay, in their order, and stay subscribed.
C4_CleanupWithinExact ==
  \A m \in 1..Len(mounts) : \A c \in DOMAIN nodes :
    LET w == cleanupWithin(World, m, c)
        inside(e) == contains(nodes, c, e.node)
        gone == {mounts[m].subs[i].unsub :
                   i \in {j \in 1..Len(mounts[m].subs) : inside(mounts[m].subs[j])}}
    IN /\ w.mounts[m].subs = SelectSeq(mounts[m].subs, LAMBDA e : ~inside(e))
       /\ \A j \in 1..Len(mounts) : j # m => w.mounts[j] = mounts[j]
       /\ w.listeners = SelectSeq(listeners, LAMBDA l : l \notin gone)
       /\ w.nodes = nodes /\ w.state = state

\* a registry with entries inside an item, entries of its sibling, the
\* collection's own two entries and entries elsewhere under the root
C4_Witness ==
  \E m \in 1..Len(mounts) : \E ci \in 1..Len(mounts[m].colls) :
    /\ Len(mounts[m].colls[ci].rendered) >= 2
    /\ ~mounts[m].torn
    /\ LET w == cleanupWithin(World, m, mounts[m].colls[ci].rendered[1].el)
       IN /\ Len(w.mounts[m].subs) + 2 = Len(mounts[m].subs)
          /\ Len(w.mounts[m].subs) >= 5
          /\ Len(w.listeners) + 2 = Len(listeners)

\* every mount there has been on root r has been torn down
quiet(r) ==
  /\ \E m \in 1..Len(mounts) : mounts[m].root = r
  /\ \A m \in 1..Len(mounts) : mounts[m].root = r => mounts[m].torn

\* C5: once a mount's cleanup function has been called, no subscription made
\* by that mount is live (bindings, the collections' exact and wildcard
\* subscriptions, bindings made by later reconciles), and no store write
\* changes, adds or removes an element under its root.
C5_TeardownRevokesAll ==
  \A m \in 1..Len(mounts) : mounts[m].torn =>
    /\ \A i \in 1..Len(listeners) : listeners[i].cb.mount # m
    /\ quiet(mounts[m].root) =>
         \A a \in Probes :
           LET w == storeSet(World, a.path, a.value) IN
           /\ under(w.nodes, mounts[m].root) = under(nodes, mounts[m].root)
           /\ \A n \in under(nodes, mounts[m].root) : w.nodes[n] = nodes[n]

\* a torn-down mount that had a collection with a rendered item and bindings,
\* and a store write to a path one of them was bound to
C5_Witness ==
  \E m \in 1..Len(mounts) :
    /\ mounts[m].torn
    /\ quiet(mounts[m].root)
    /\ \E ci \in 1..Len(mounts[m].colls) : Len(mounts[m].colls[ci].rendered) >= 1
    /\ Len(mounts[m].subs) >= 5
    /\ \E a \in Probes : \E i \in 1..Len(mounts[m].subs) :
         /\ mounts[m].subs[i].unsub.path = a.path
         /\ get(state, a.path) # a.value

\* ------------------------------------------------------------------------
\* Properties: delegated actions
\* ------------------------------------------------------------------------

\* C6: once every mount on a root has been torn down, a click, a focusout or
\* an Enter keydown on an element under that root causes no store write.
C6_NoWriteAfterTeardown ==
  \A r \in DOMAIN nodes : quiet(r) =>
    \A n \in under(nodes, r) :
      \A ev \in {click(n), focusout(n), keydown(n, "Enter")} :
        dispatchEvent(World, ev, now).writes = <<>>

\* v is a composite value
composite(v) == v.t = "object"

\* the value a field holding v is to be reset to, by v's type
typedReset(v) ==
  CASE v.t = "string" -> Str(<<>>)
    [] v.t = "boolean" -> Bool(FALSE)
    [] v.t = "number" -> Num(0)
    [] OTHER -> Null

\* store s has both halves of the push of src from D to T at clock reading t
bothHalves(s, src, t) ==
  /\ get(s, PTodos \o << "." >> \o pushKey(t)) = src
  /\ \A i \in 1..Len(keysOf(src)) :
       get(s, PDraft \o << "." >> \o keysOf(src)[i])
         = typedReset(prop(src, keysOf(src)[i]))

\* C7: every store state a subscriber is shown during a push action has both
\* the new entry and all the source's fields reset (or is the state before
\* the push): no subscriber is notified between the push's writes.
C7_PushAtomic ==
  LET src == get(state, PDraft)
      w == executeSet(World, RawPush, now)
  IN composite(src) =>
       \A s \in w.obs : s = state \/ bothHalves(s, src, now)

\* a push of several writes that bindings and a reconciler are notified of
C7_Witness ==
  LET w == executeSet(World, RawPush, now) IN
  /\ composite(get(state, PDraft))
  /\ Len(w.writes) >= 3
  /\ w.obs # {} /\ state \notin w.obs
  /\ w.nodes # nodes
  /\ \E i \in 1..Len(listeners) : listeners[i].cb.kind = "reconcile"
  /\ \E i \in 1..Len(listeners) : listeners[i].path = PDraftX

\* C8: a push T:push(D) of a composite V leaves under T a new entry equal to V
\* as it was, T's other entries as they were, every field of D reset by its
\* type and nothing else in the store changed; and writing to D's fields
\* afterwards does not change the new entry.
C8_PushResult ==
  LET src == get(state, PDraft)
      old == get(state, PTodos)
      w == executeSet(World, RawPush, now)
      new == get(w.state, PTodos)
      key == pushKey(now)
  IN composite(src) =>
       /\ prop(new, key) = src
       /\ {keysOf(new)[i] : i \in 1..Len(keysOf(new))}
            = {keysOf(old)[i] : i \in 1..Len(keysOf(old))} \cup {key}
       /\ \A i \in 1..Len(keysOf(old)) :
            keysOf(old)[i] # key => prop(new, keysOf(old)[i]) = prop(old, keysOf(old)[i])
       /\ keysOf(get(w.state, PDraft)) = keysOf(src)
       /\ \A i \in 1..Len(keysOf(src)) :
            prop(get(w.state, PDraft), keysOf(src)[i]) = typedReset(prop(src, keysOf(src)[i]))
       /\ keysOf(w.state) = keysOf(state)
       /\ \A i \in 1..Len(keysOf(src)) :
            get(storeSet(w, PDraft \o << "." >> \o keysOf(src)[i], Str(<< "z" >>)).state,
                PTodos \o << "." >> \o key) = src

\* a push of a source with a field of each kind that its reset changes, into
\* a collection that has other entries, shown by bindings or a reconciler
C8_Witness ==
  LET src == get(state, PDraft) IN
  /\ composite(src)
  /\ {prop(src, keysOf(src)[i]).t : i \in 1..Len(keysOf(src))}
       = {"string", "boolean", "number", "object"}
  /\ \A i \in 1..Len(keysOf(src)) :
       prop(src, keysOf(src)[i]) # typedReset(prop(src, keysOf(src)[i]))
  /\ Len(keysOf(get(state, PTodos))) >= 1
  /\ pushKey(now) \notin {keysOf(get(state, PTodos))[i] :
                            i \in 1..Len(keysOf(get(state, PTodos)))}
  /\ Len(executeSet(World, RawPush, now).writes) = 5
  /\ executeSet(World, RawPush, now).nodes # nodes

\* C9: a push of a composite source writes under a key that is not yet
\* present beneath the target, so the target has one more entry after it.
C9_PushAddsEntry ==
  LET old == get(state, PTodos)
      new == get(executeSet(World, RawPush, now).state, PTodos)
  IN composite(get(state, PDraft)) =>
       /\ \A i \in 1..Len(keysOf(old)) : keysOf(old)[i] # pushKey(now)
       /\ Len(keysOf(new)) = Len(keysOf(old)) + 1

\* the delete actions tried: keys of T and of D, present or not
DeleteTargets ==
  {[parent |-> PTodos, key |-> k] : k \in {KeyA, pushKey(0), pushKey(1), << "z" >>}}
  \cup {[parent |-> PDraft, key |-> << "o" >>]}

\* "P.k:delete"
rawDelete(t) == t.parent \o << "." >> \o t.key \o << ":" >> \o SDelete

\* C10: a delete action P.k:delete on a mapping stored at P writes back to P
\* the mapping with the old keys other than k, in their order and with their
\* values, and writes nowhere else.
C10_DeleteFrame ==
  \A t \in DeleteTargets :
    LET old == get(state, t.parent)
        w == executeSet(World, rawDelete(t), now)
        new == get(w.state, t.parent)
    IN composite(old) =>
         /\ keysOf(new) = SelectSeq(keysOf(old), LAMBDA k : k # t.key)
         /\ \A i \in 1..Len(keysOf(new)) :
              prop(new, keysOf(new)[i]) = prop(old, keysOf(new)[i])
         /\ keysOf(w.state) = keysOf(state)
         /\ \A i \in 1..Len(keysOf(state)) :
              keysOf(state)[i] # t.parent
                => prop(w.state, keysOf(state)[i]) = prop(state, keysOf(state)[i])
         /\ w.writes = << t.parent >>

\* a delete of a present key from a collection that has other entries, with
\* a reconciler to notify
C10_Witness ==
  \E t \in DeleteTargets :
    LET old == get(state, t.parent) IN
    /\ t.parent = PTodos
    /\ composite(old)
    /\ Len(keysOf(old)) >= 2
    /\ \E i \in 1..Len(keysOf(old)) : keysOf(old)[i] = t.key
    /\ executeSet(World, rawDelete(t), now).nodes # nodes

\* ------------------------------------------------------------------------
\* Properties: guards, the counter, delegation, scanning, two mounts
\* ------------------------------------------------------------------------

\* a top-level path the store holds nothing at
PAbsent == << "Z" >>

\* "P:push(X)"
rawPush(target, source) ==
  target \o << ":" >> \o SPush \o << "(" >> \o source \o << ")" >>

\* delete and push actions against absent or malformed paths and sources:
\* "T:delete", "Z.k:delete", "D.x.k:delete", "T:push", "T:push(Z)",
\* "T:push(D.x)", "T:push(D.n)"
MalformedRaws ==
  { PTodos \o << ":" >> \o SDelete,
    rawDelete([parent |-> PAbsent, key |-> << "k" >>]),
    rawDelete([parent |-> PDraftX, key |-> << "k" >>]),
    PTodos \o << ":" >> \o SPush,
    rawPush(PTodos, PAbsent),
    rawPush(PTodos, PDraftX),
    rawPush(PTodos, PDraft \o << ".", "n" >>) }

\* C11: a delete whose path has no separator or whose parent is absent or no
\* mapping, a bare push, and a push whose source is absent or not composite
\* leave the store as it is and issue no store write.
C11_MalformedNoOp ==
  \A raw \in MalformedRaws :
    LET w == executeSet(World, raw, now) IN
    w.state = state /\ w.writes = <<>>

\* k click events on element n, one after the other
RECURSIVE clicks(_, _, _)
clicks(w, n, k) ==
  IF k = 0 THEN w ELSE clicks(dispatchEvent(w, click(n), now), n, k - 1)

\* C12: on the counter page with a running mount, the text-bound element
\* shows the string form of count, and k clicks on the count:increment
\* element leave count raised by k and shown so; from count = 0, three
\* clicks show "3".
C12_CounterEndToEnd ==
  \A m \in 1..Len(mounts) : soleMount(m) =>
    LET c == get(state, PCount).n IN
    /\ nodes[S(6)].text = numToStr(c)
    /\ \A k \in 0..MaxCount :
         LET w == clicks(World, S(3), k) IN
         /\ get(w.state, PCount) = Num(c + k)
         /\ w.nodes[S(6)].text = numToStr(c + k)
         /\ Len(w.raws) = k
    /\ c = 0 => clicks(World, S(3), 3).nodes[S(6)].text = << "3" >>

\* the mounted counter after three clicks from 0
C12_Witness ==
  /\ \E m \in 1..Len(mounts) : soleMount(m)
  /\ get(state, PCount) = Num(3)
  /\ nodes[S(6)].text = << "3" >>
  /\ get(state, PFlag) = Bool(FALSE)

\* the nearest of n and its ancestors that bears attribute attr, or None
nearestWith(n, attr) ==
  LET hits == SelectSeq(bubble(nodes, n), LAMBDA a : hasAttribute(nodes[a], attr))
  IN IF hits = <<>> THEN None ELSE hits[1]

\* the three kinds of event and the action attribute each activates
Activations(n) ==
  { [ev |-> click(n), attr |-> "set"],
    [ev |-> focusout(n), attr |-> "set-blur"],
    [ev |-> keydown(n, "Enter"), attr |-> "set-enter"] }

\* C13: while a mounted root carries just the three listeners of its mount,
\* a click, a focusout or an Enter keydown on any element under it executes
\* the action of the nearest of the target and its ancestors that bears the
\* matching attribute, once, and executes no other action (none if there is
\* no such element); elements rendered by the reconciler are no exception.
C13_Delegation ==
  \A m \in 1..Len(mounts) :
    Len(nodes[mounts[m].root].events) = 3 =>
      \A n \in under(nodes, mounts[m].root) :
        /\ \A a \in Activations(n) :
             LET t == nearestWith(n, a.attr)
                 w == dispatchEvent(World, a.ev, now)
             IN w.raws = IF t = None THEN <<>>
                         ELSE << getAttribute(nodes[t], a.attr) >>
        /\ dispatchEvent(World, keydown(n, "a"), now).raws = <<>>

\* an item rendered for a pushed entry, after mount, whose delete button lies
\* within the item's own action element, and whose text lies within it too
C13_Witness ==
  \E m \in 1..Len(mounts) :
    /\ Len(nodes[mounts[m].root].events) = 3
    /\ \E n \in under(nodes, mounts[m].root) :
         /\ n.k = pushKey(0)
         /\ hasAttribute(nodes[n], "set")
         /\ nearestWith(nodes[n].parent, "set") \notin {None, n}
    /\ \E n \in under(nodes, mounts[m].root) :
         /\ n.k = pushKey(0)
         /\ ~hasAttribute(nodes[n], "set")
         /\ nearestWith(n, "set") # None

\* the recognized binding attributes of an element: what each updates, the
\* rest of its name, the path it names
bindingAttrs(node) ==
  {[upd |-> "text", name |-> "", path |-> node.attrs[i].val] :
     i \in {j \in 1..Len(node.attrs) :
              node.attrs[j].name = "bind-text" /\ node.attrs[j].suf = ""}}
  \cup {[upd |-> "value", name |-> "", path |-> node.attrs[i].val] :
     i \in {j \in 1..Len(node.attrs) :
              node.attrs[j].name = "bind-value" /\ node.attrs[j].suf = ""}}
  \cup {[upd |-> "focus", name |-> "", path |-> node.attrs[i].val] :
     i \in {j \in 1..Len(node.attrs) :
              node.attrs[j].name = "bind-focus" /\ node.attrs[j].suf = ""}}
  \cup {[upd |-> "data", name |-> node.attrs[i].suf, path |-> node.attrs[i].val] :
     i \in {j \in 1..Len(node.attrs) : node.attrs[j].name = "bind-data-"}}
  \cup {[upd |-> "attr", name |-> node.attrs[i].suf, path |-> node.attrs[i].val] :
     i \in {j \in 1..Len(node.attrs) : node.attrs[j].name = "bind-attr-"}}

\* the registry entries of mount m in w for binding attribute b of element n
entriesFor(w, m, n, b) ==
  {i \in 1..Len(w.mounts[m].subs) :
     /\ w.mounts[m].subs[i].node = n
     /\ w.mounts[m].subs[i].unsub.cb.kind = "bind"
     /\ w.mounts[m].subs[i].unsub.cb.upd = b.upd
     /\ w.mounts[m].subs[i].unsub.cb.name = b.name
     /\ w.mounts[m].subs[i].unsub.path = b.path}

\* the live subscriptions in w for binding attribute b of element n
subscriptionsFor(w, n, b) ==
  {i \in 1..Len(w.listeners) :
     /\ w.listeners[i].cb.kind = "bind"
     /\ w.listeners[i].cb.node = n
     /\ w.listeners[i].cb.upd = b.upd
     /\ w.listeners[i].cb.name = b.name
     /\ w.listeners[i].path = b.path}

\* all registry entries and all live binding subscriptions in w on element n
bindingsOn(w, m, n) ==
  [entries |-> {i \in 1..Len(w.mounts[m].subs) :
                  /\ w.mounts[m].subs[i].node = n
                  /\ w.mounts[m].subs[i].unsub.cb.kind = "bind"},
   live |-> {i \in 1..Len(w.listeners) :
               /\ w.listeners[i].cb.kind = "bind"
               /\ w.listeners[i].cb.node = n}]

\* C14: under the only mount there has been on a root, while it runs, each
\* recognized binding attribute of each element under the root has exactly
\* one registry entry and one live subscription, and the element has no
\* others, however many scans have visited it; and scanning any subtree a
\* second time changes nothing: no registry entry, no subscription.
C14_ScanIdempotent ==
  /\ \A m \in 1..Len(mounts) : soleMount(m) =>
       \A n \in under(nodes, mounts[m].root) :
         /\ \A b \in bindingAttrs(nodes[n]) :
              /\ Cardinality(entriesFor(World, m, n, b)) = 1
              /\ Cardinality(subscriptionsFor(World, n, b)) = 1
         /\ Cardinality(bindingsOn(World, m, n).entries)
              = Cardinality(bindingAttrs(nodes[n]))
         /\ Cardinality(bindingsOn(World, m, n).live)
              = Cardinality(bindingAttrs(nodes[n]))
         /\ scanBindings(World, m, n) = World
  /\ \A m \in 1..Len(mounts) : \A n \in DOMAIN nodes :
       LET once == scanBindings(World, m, n) IN
       scanBindings(once, m, n) = once

\* a running mount with an item the reconciler rendered and scanned when the
\* collection was set up, revisited by the scan of the root, and, on the same
\* page, a subtree no scan has visited yet
C14_Witness ==
  \E m \in 1..Len(mounts) :
    /\ soleMount(m)
    /\ \E n \in under(nodes, mounts[m].root) :
         /\ n.c # 0 /\ n.k = KeyA /\ n.g = 0
         /\ nodes[n].bound
         /\ bindingAttrs(nodes[n]) # {}
    /\ \E n \in DOMAIN nodes :
         /\ ~nodes[n].bound
         /\ bindingAttrs(nodes[n]) # {}
         /\ scanBindings(World, m, n) # World

\* mounts m and j are over disjoint subtrees
disjoint(m, j) ==
  /\ ~contains(nodes, mounts[m].root, mounts[j].root)
  /\ ~contains(nodes, mounts[j].root, mounts[m].root)

\* the system as it would be had mount j attached no listener to its root
unheard(j) == [World EXCEPT !.nodes[mounts[j].root].events = <<>>]

\* the live subscriptions of mount j in w
liveOf(w, j) == SelectSeq(w.listeners, LAMBDA l : l.cb.mount = j)

\* the elements under r in w, with what they show
subtree(w, r) == [n \in under(w.nodes, r) |-> w.nodes[n]]

\* C15: for two mounts m and j over disjoint subtrees of one store: an event
\* under m's root executes what it would execute were j's listeners not
\* there, at most one action; m's cleanup function leaves j's registry, j's
\* collections and j's live subscriptions as they are; and after it, every
\* store write shows under j's root exactly as it would have without it.
C15_MountsIndependent ==
  \A m \in 1..Len(mounts) : \A j \in 1..Len(mounts) :
    (j # m /\ disjoint(m, j)) =>
      /\ \A n \in under(nodes, mounts[m].root) :
           \A a \in Activations(n) :
             LET w == dispatchEvent(World, a.ev, now)
                 v == dispatchEvent(unheard(j), a.ev, now)
             IN /\ w.raws = v.raws /\ w.writes = v.writes /\ w.state = v.state
                /\ Len(w.raws) <= 1
      /\ LET t == teardown(World, m) IN
         /\ t.mounts[j] = mounts[j]
         /\ liveOf(t, j) = liveOf(World, j)
         /\ subtree(t, mounts[j].root) = subtree(World, mounts[j].root)
         /\ \A a \in Probes :
              subtree(storeSet(t, a.path, a.value), mounts[j].root)
                = subtree(storeSet(World, a.path, a.value), mounts[j].root)

\* two running mounts over disjoint subtrees; the cleanup function of either
\* revokes subscriptions, and afterwards a store write still changes what
\* the other's subtree shows, rendered items and plain bindings alike
C15_Witness ==
  \E m \in 1..Len(mounts) : \E j \in 1..Len(mounts) :
    /\ j # m /\ disjoint(m, j)
    /\ ~mounts[m].torn /\ ~mounts[j].torn
    /\ \E ci \in 1..Len(mounts[m].colls) : Len(mounts[m].colls[ci].rendered) >= 1
    /\ liveOf(World, m) # <<>> /\ liveOf(World, j) # <<>>
    /\ Len(teardown(World, m).listeners) < Len(listeners)
    /\ Len(teardown(World, j).listeners) < Len(listeners)
    /\ \E a \in Probes :
         subtree(storeSet(teardown(World, m), a.path, a.value), mounts[j].root)
           # subtree(World, mounts[j].root)
    /\ \E a \in Probes :
         subtree(storeSet(teardown(World, j), a.path, a.value), mounts[m].root)
           # subtree(World, mounts[m].root)

\* ------------------------------------------------------------------------
\* Properties: the pure helpers
\* ------------------------------------------------------------------------

\* the numeric strings among the inputs, each with the number it denotes
NumericStrings ==
  { << S42, 42 >>, << SZero, 0 >>, << SMinus5, 0 - 5 >>, << SPadded7, 7 >>,
    << S5, 5 >> }

\* the structured literals among the inputs, each with the value it denotes
StructuredLiterals ==
  { << SQuotedX, Str(<< "x" >>) >>, << SBraces, EmptyObj >> }

denotes(table, s) == \E p \in table : p[1] = s

denoted(table, s) == (CHOOSE p \in table : p[1] = s)[2]

\* the numeric coercion of a current value, absent and non-numeric being 0
coerced(current) ==
  CASE current = Bool(TRUE) -> 1
    [] current.t = "number" /\ current # NaN -> current.n
    [] current.t = "string" /\ denotes(NumericStrings, current.s) ->
         denoted(NumericStrings, current.s)
    [] OTHER -> 0

\* what is true of a current value
holds(current) ==
  current \notin {Undefined, Null, Bool(FALSE), Num(0), NaN, Str(<<>>)}

\* the reference mapping of evalExpr
RefEval(expr, current) ==
  CASE expr \in {Null, Undefined} -> current
    [] expr = Str(SIncrement) -> Num(coerced(current) + 1)
    [] expr = Str(SDecrement) -> Num(coerced(current) - 1)
    [] expr = Str(SToggle) -> Bool(~holds(current))
    [] expr = Str(STrue) -> Bool(TRUE)
    [] expr = Str(SFalse) -> Bool(FALSE)
    [] expr = Str(SNull) -> Null
    [] OTHER ->
         IF denotes(NumericStrings, expr.s) THEN Num(denoted(NumericStrings, expr.s))
         ELSE IF denotes(StructuredLiterals, expr.s)
         THEN denoted(StructuredLiterals, expr.s)
         ELSE expr

\* C16: the result of every call evalExpr(expr, current) is what the
\* reference mapping gives: current for an absent expr; the numeric coercion
\* of current (0 if absent or non-numeric) plus or minus 1 for increment and
\* decrement; the negation of current's truthiness for toggle; the literal
\* for true, false and null; the number for a numeric string; the string
\* itself for any other string that is no structured literal; whatever the
\* store holds, and the store is as it was.
C16_EvalExprReference ==
  pure.fn = "evalExpr" =>
    /\ pure.result = RefEval(pure.expr, pure.current)
    /\ state \in {InitialState, CounterState} /\ listeners = <<>>

\* increment of an absent value gives 1
C16_Witness ==
  /\ pure.fn = "evalExpr"
  /\ pure.expr = Str(SIncrement)
  /\ pure.current = Undefined
  /\ pure.result = Num(1)
  /\ state = CounterState

\* s without the blanks at its two ends
RECURSIVE strip(_)
strip(s) ==
  IF s = <<>> THEN s
  ELSE IF Head(s) = " " THEN strip(Tail(s))
  ELSE IF s[Len(s)] = " " THEN strip(SubSeq(s, 1, Len(s) - 1))
  ELSE s

\* the ways of writing raw as before, ':' and after
cuts(raw) == {i \in 1..Len(raw) : raw[i] = ":"}

\* C17: every call parseSetExpr(raw) returns as path the text before the
\* first ':' of raw and as expr the text after it, further ':' included, both
\* without surrounding blanks; for a raw without ':' the path is raw without
\* surrounding blanks and expr is null. The path never contains ':'.
C17_ParseSetExprFirstColon ==
  pure.fn = "parseSetExpr" =>
    LET raw == pure.raw
        r == pure.result
    IN /\ \A i \in 1..Len(r.path) : r.path[i] # ":"
       /\ cuts(raw) = {} => r.path = strip(raw) /\ r.expr = Null
       /\ cuts(raw) # {} =>
            \E i \in cuts(raw) :
              /\ \A j \in cuts(raw) : i <= j
              /\ r.path = strip(SubSeq(raw, 1, i - 1))
              /\ r.expr = Str(strip(SubSeq(raw, i + 1, Len(raw))))
       /\ raw = SCountIncrement => r = [path |-> SCount, expr |-> Str(SIncrement)]
       /\ raw = SCount => r = [path |-> SCount, expr |-> Null]
       /\ raw = STwoColons => r = [path |-> << "a" >>, expr |-> Str(<< "b", ":", "c" >>)]
       /\ raw = SPaddedBoth => r = [path |-> << "c" >>, expr |-> Str(<< "i" >>)]

\* a raw value with blanks and two ':': the expr keeps the second
C17_Witness ==
  /\ pure.fn = "parseSetExpr"
  /\ pure.raw = SSpacedColons
  /\ pure.result = [path |-> << "a", ".", "b" >>,
                    expr |-> Str(<< "c", " ", ":", " ", "d" >>)]

\* the texts of the form push(X), X being one or more characters none of
\* which closes the parenthesis, each with X
PushForms ==
  { << SPushDraft, << "d" >> >>,
    << SPushDotted, << "f", ".", "d" >> >>,
    << SPushPadded, << " ", "d", " " >> >>,
    << SPush \o << "(", " ", ")" >>, << " " >> >>,
    << SPush \o << "(", "(", "d", ")" >>, << "(", "d" >> >> }

\* C18: every call parsePush(expr) returns a match without source for the
\* bare word push and for nothing else, a match whose source is X without
\* surrounding blanks for push(X), and null for every other input: an
\* absent expr, the empty string, the name of another expression, the word
\* with text before or after it, unbalanced or empty parentheses.
C18_ParsePushExact ==
  pure.fn = "parsePush" =>
    LET e == pure.expr
        r == pure.result
    IN /\ e = Str(SPush) <=> r = [t |-> "object", source |-> Null]
       /\ (e.t = "string" /\ denotes(PushForms, e.s)) <=>
            (r # Null /\ r.source # Null)
       /\ (e.t = "string" /\ denotes(PushForms, e.s)) =>
            r.source = Str(strip(denoted(PushForms, e.s)))
       /\ e \in {Null, Undefined, Str(<<>>), Str(SIncrement), Str(SToggle)} => r = Null

\* push(X) with blanks around X: the source is X without them
C18_Witness ==
  /\ pure.fn = "parsePush"
  /\ pure.expr = Str(SPushPadded)
  /\ pure.result = [t |-> "object", source |-> Str(<< "d" >>)]

\* ------------------------------------------------------------------------
\* Properties: the reconciler's fast bail and rendering order
\* ------------------------------------------------------------------------

\* the signature reconcile would compute for collection ci of mount m in w
signature(w, m, ci) ==
  LET got == get(w.state, w.mounts[m].colls[ci].collPath)
      ks == keysOf(IF truthy(got) THEN got ELSE EmptyObj)
  IN join(SelectSeq(ks, LAMBDA k : ~isNullish(prop(got, k))), ",")

\* the system with value v stored at path and no subscriber told
silently(path, v) == [World EXCEPT !.state = write(state, path, v)]

\* C19: a reconcile that finds the joined signature of the present keys
\* equal to the cached one changes nothing: the elements, the key->element
\* mapping, the registry and the live subscriptions are as before. And a
\* reconcile run again right after a reconcile, the store unchanged, changes
\* nothing either.
C19_FastBail ==
  \A m \in 1..Len(mounts) : \A ci \in 1..Len(mounts[m].colls) :
    /\ signature(World, m, ci) = mounts[m].colls[ci].lastKeyStr
         => reconcile(World, m, ci) = World
    /\ \A a \in Probes :
         LET d == silently(a.path, a.value)
             once == reconcile(d, m, ci)
         IN /\ signature(d, m, ci) = mounts[m].colls[ci].lastKeyStr => once = d
            /\ reconcile(once, m, ci) = once

\* a collection with a rendered item whose signature equals the cached one,
\* and a store change after which reconcile adds or removes an element
C19_Witness ==
  \E m \in 1..Len(mounts) : \E ci \in 1..Len(mounts[m].colls) :
    /\ mounts[m].colls[ci].rendered # <<>>
    /\ mounts[m].colls[ci].lastKeyStr # <<>>
    /\ signature(World, m, ci) = mounts[m].colls[ci].lastKeyStr
    /\ \E a \in Probes :
         LET d == silently(a.path, a.value) IN
         /\ reconcile(d, m, ci).nodes # d.nodes
         /\ Len(reconcile(d, m, ci).listeners) > Len(listeners)
    /\ \E a \in Probes :
         LET d == silently(a.path, a.value) IN
         /\ d.state # state
         /\ signature(d, m, ci) = mounts[m].colls[ci].lastKeyStr

\* the elements collection ci of mount m has rendered in w, in the order of
\* its key->element mapping
renderedEls(w, m, ci) ==
  [i \in 1..Len(w.mounts[m].colls[ci].rendered) |-> w.mounts[m].colls[ci].rendered[i].el]

\* those of them that are children of the container, in document order
shownEls(w, m, ci) ==
  SelectSeq(w.nodes[w.mounts[m].colls[ci].container].kids,
            LAMBDA n : inSeq(n, renderedEls(w, m, ci)))

\* the mapping with its keys in the opposite order
reversed(coll) == Obj([i \in 1..Len(coll.ks) |-> coll.ks[Len(coll.ks) + 1 - i]], coll.f)

\* w's elements of the collection are those of now that are left, in their
\* order, followed by elements that did not exist
appended(w, m, ci) ==
  LET old == renderedEls(World, m, ci)
      new == renderedEls(w, m, ci)
      kept == SelectSeq(old, LAMBDA n : inSeq(n, new))
  IN /\ shownEls(w, m, ci) = new
     /\ Len(kept) <= Len(new)
     /\ SubSeq(new, 1, Len(kept)) = kept
     /\ \A i \in (Len(kept) + 1)..Len(new) : ~inSeq(new[i], old)

\* the store sets the entry under key k of the collection to v
setEntry(w, m, ci, k, v) ==
  storeSet(w, w.mounts[m].colls[ci].collPath \o << "." >> \o k, v)

\* the rendered entry of key k is removed from the store and added again:
\* its element is a new one, the last of the container and of the mapping
readded(m, ci, k) ==
  LET gone == setEntry(World, m, ci, k, Null)
      back == setEntry(gone, m, ci, k, Item(<< "z" >>))
      old == renderedEls(World, m, ci)
      was == CHOOSE e \in 1..Len(old) : mounts[m].colls[ci].rendered[e].k = k
      new == renderedEls(back, m, ci)
      kids == back.nodes[mounts[m].colls[ci].container].kids
  IN /\ new = SelectSeq(old, LAMBDA n : n # old[was]) \o << new[Len(new)] >>
     /\ back.mounts[m].colls[ci].rendered[Len(new)].k = k
     /\ ~inSeq(new[Len(new)], old)
     /\ kids[Len(kids)] = new[Len(new)]
     /\ shownEls(back, m, ci) = new

\* C20: the elements a running mount's collection has rendered stand in the
\* container in the order in which their keys were first rendered: any store
\* write leaves the remaining elements in their order and puts the elements
\* of new keys after them; writing the mapping with its keys in another
\* order moves no element; an entry removed and added again gets a new
\* element at the end.
C20_FirstRenderedOrder ==
  \A m \in 1..Len(mounts) : ~mounts[m].torn =>
    \A ci \in 1..Len(mounts[m].colls) :
      LET c == mounts[m].colls[ci] IN
      /\ shownEls(World, m, ci) = renderedEls(World, m, ci)
      /\ \A a \in Probes : appended(storeSet(World, a.path, a.value), m, ci)
      /\ Len(c.rendered) >= 2 =>
           LET w == storeSet(World, c.collPath, reversed(get(state, c.collPath)))
           IN /\ get(w.state, c.collPath) # get(state, c.collPath)
              /\ w.nodes = nodes
              /\ w.mounts = [mounts EXCEPT ![m].colls[ci].lastKeyStr =
                               w.mounts[m].colls[ci].lastKeyStr]
      /\ \A e \in 1..Len(c.rendered) : readded(m, ci, c.rendered[e].k)

\* the same for the entries whose key is not the empty string, which holds
C20_NamedKeys ==
  \A m \in 1..Len(mounts) : ~mounts[m].torn =>
    \A ci \in 1..Len(mounts[m].colls) :
      LET c == mounts[m].colls[ci] IN
      /\ shownEls(World, m, ci) = renderedEls(World, m, ci)
      /\ \A a \in Probes : appended(storeSet(World, a.path, a.value), m, ci)
      /\ \A e \in 1..Len(c.rendered) :
           c.rendered[e].k # <<>> => readded(m, ci, c.rendered[e].k)

\* ------------------------------------------------------------------------
\* Properties: templates, focus, two-way binding, remount, revocation
\* ------------------------------------------------------------------------

\* collection ci of mount m has rendered nothing: its container holds the
\* template only, its mapping is empty, no binding lives in the container
nothingRendered(m, ci) ==
  LET c == mounts[m].colls[ci] IN
  /\ c.rendered = <<>>
  /\ \A i \in 1..Len(nodes[c.container].kids) :
       nodes[nodes[c.container].kids[i]].tag = "template"
  /\ \A i \in 1..Len(listeners) :
       listeners[i].cb.kind = "bind"
         => ~contains(nodes, c.container, listeners[i].cb.node)
  /\ \A i \in 1..Len(mounts[m].subs) :
       mounts[m].subs[i].unsub.cb.kind = "bind"
         => ~contains(nodes, c.container, mounts[m].subs[i].node)

\* C21: a running mount's collection whose template markup does not yield
\* exactly one root element (none, or more than one) renders nothing, after
\* the first reconcile and after every later one: nothing is appended to
\* the container, nothing is recorded in the key->element mapping, no
\* binding is created.
C21_SkipsNonSingleRoot ==
  \A m \in 1..Len(mounts) : ~mounts[m].torn =>
    \A ci \in 1..Len(mounts[m].colls) :
      Len(mounts[m].colls[ci].templateHTML) # 1 => nothingRendered(m, ci)

\* the same for the templates that yield no element, which holds
C21_NoElement ==
  \A m \in 1..Len(mounts) : ~mounts[m].torn =>
    \A ci \in 1..Len(mounts[m].colls) :
      Len(mounts[m].colls[ci].templateHTML) = 0 => nothingRendered(m, ci)

\* n is part of the laid-out tree of the document ns: it is in the document
\* and neither it nor any element above it is taken out of the layout
RECURSIVE laidOut(_, _)
laidOut(ns, n) ==
  /\ n \in DOMAIN ns
  /\ ~ns[n].hidden
  /\ \/ ns[n].top
     \/ ns[n].parent # None /\ laidOut(ns, ns[n].parent)

\* the live focus bindings of element n on path
focusBindings(n, path) ==
  {i \in 1..Len(listeners) :
     /\ listeners[i].cb.kind = "bind"
     /\ listeners[i].cb.upd = "focus"
     /\ listeners[i].cb.node = n
     /\ listeners[i].path = path}

\* one if the value at the path element n names in bind-focus is truthy in
\* store st, zero otherwise
truthyAtScan(ns, st, n) ==
  IF truthy(get(st, getAttribute(ns[n], "bind-focus"))) THEN 1 ELSE 0

\* C22: a focus binding never focuses at once: a scan that reads a truthy
\* value and a notification of a truthy value each leave one more callback
\* waiting for the animation frame (a falsy value leaves none), and focus()
\* is not called. When the frame fires, focus() is called on exactly the
\* elements with a waiting callback that are then part of the laid-out tree:
\* never on one that was removed or hidden in the meantime.
C22_FocusDeferred ==
  /\ LET w == runFrame(World) IN
     /\ w.focus = {n \in DOMAIN nodes : nodes[n].frames > 0 /\ laidOut(nodes, n)}
     /\ \A n \in DOMAIN nodes :
          (~connected(n) \/ \E a \in DOMAIN nodes : contains(nodes, a, n) /\ nodes[a].hidden)
            => n \notin w.focus
     /\ \A n \in DOMAIN w.nodes : w.nodes[n].frames = 0
  /\ \A a \in FocusWrites :
       LET w == storeSet(World, a.path, a.value) IN
       /\ w.focus = {}
       /\ \A n \in DOMAIN nodes :
            w.nodes[n].frames = nodes[n].frames +
              (IF truthy(a.value) THEN Cardinality(focusBindings(n, a.path)) ELSE 0)
       /\ \A n \in DOMAIN w.nodes \ DOMAIN nodes :
            w.nodes[n].frames =
              IF hasAttribute(w.nodes[n], "bind-focus")
              THEN truthyAtScan(w.nodes, w.state, n) ELSE 0
  /\ \A r \in DOMAIN nodes :
       (nodes[r].top /\ \A m \in 1..Len(mounts) : mounts[m].root # r) =>
         LET w == mount(World, r) IN
         /\ w.focus = {}
         /\ \A n \in under(w.nodes, r) :
              w.nodes[n].frames =
                IF hasAttribute(w.nodes[n], "bind-focus")
                THEN truthyAtScan(w.nodes, state, n) ELSE 0

\* callbacks wait for three elements: one a reconcile has removed, one whose
\* parent was hidden, one that is laid out; the frame focuses the last only
C22_Witness ==
  /\ \E n \in DOMAIN nodes : nodes[n].frames > 0 /\ ~connected(n)
  /\ \E n \in DOMAIN nodes :
       nodes[n].frames > 0 /\ connected(n) /\ ~nodes[n].hidden /\ ~laidOut(nodes, n)
  /\ \E n \in DOMAIN nodes :
       /\ nodes[n].frames > 0 /\ laidOut(nodes, n)
       /\ runFrame(World).focus = {n}

\* what a user may leave in a text control
Texts == { <<>>, << "r" >>, << "7" >>, << "q" >> }

\* the control n has been given its two-way binding: it bears bind-value
\* and a scan has visited it
twoWay(n) ==
  /\ connected(n)
  /\ hasAttribute(nodes[n], "bind-value")
  /\ nodes[n].bound

\* the input event of control n, the control being left as in node
afterInput(n, node) ==
  dispatchEvent([World EXCEPT !.nodes[n] = node], input(n), now)

\* C23: an input event on a control with a two-way binding makes exactly one
\* store write, to the bound path, of the checked state for a checkbox and
\* of the text for any other control; after the notification the control
\* shows what the user left in it, and nothing else has been written.
C23_NoFeedback ==
  \A n \in DOMAIN nodes : twoWay(n) =>
    LET p == getAttribute(nodes[n], "bind-value") IN
    IF hasAttribute(nodes[n], "type") /\ getAttribute(nodes[n], "type") = << "checkbox" >>
    THEN \A b \in BOOLEAN :
           LET w == afterInput(n, [nodes[n] EXCEPT !.checked = b]) IN
           /\ w.writes = << p >>
           /\ get(w.state, p) = Bool(b)
           /\ w.nodes[n].checked = b
           /\ w.nodes[n].value = nodes[n].value
    ELSE \A s \in Texts :
           LET w == afterInput(n, [nodes[n] EXCEPT !.value = s]) IN
           /\ w.writes = << p >>
           /\ get(w.state, p) = Str(s)
           /\ w.nodes[n].value = s
           /\ w.nodes[n].checked = nodes[n].checked

\* a running mount with a ticked checkbox, two text controls on one path,
\* of which typing into one changes the other, and a control in an item
C23_Witness ==
  /\ \E m \in 1..Len(mounts) : ~mounts[m].torn
  /\ \E n \in DOMAIN nodes :
       twoWay(n) /\ hasAttribute(nodes[n], "type") /\ nodes[n].checked
  /\ \E n \in DOMAIN nodes : twoWay(n) /\ n.c # 0
  /\ \E n \in DOMAIN nodes : \E o \in DOMAIN nodes :
       /\ n # o /\ twoWay(n) /\ twoWay(o)
       /\ ~hasAttribute(nodes[n], "type")
       /\ afterInput(n, [nodes[n] EXCEPT !.value = << "7" >>]).nodes[o].value = << "7" >>
       /\ nodes[o].value # << "7" >>

\* the keys present in the collection ci of mount m in w
presentIn(w, m, ci) ==
  LET got == get(w.state, w.mounts[m].colls[ci].collPath)
      ks == presentKeys(IF truthy(got) THEN got ELSE EmptyObj)
  IN {ks[i] : i \in 1..Len(ks)}

\* the keys of the key->element mapping of collection ci of mount m
mappedIn(w, m, ci) ==
  {w.mounts[m].colls[ci].rendered[i].k : i \in 1..Len(w.mounts[m].colls[ci].rendered)}

\* the collection as one entry whose key holds a comma
CommaWrites ==
  { [path |-> PTodos, value |-> objOf(<< << << "a", ",", "b" >>, Item("p") >> >>)] }

\* C24: whenever a reconcile of a running mount starts with the set of
\* present keys different from the set of keys of the key->element mapping,
\* the joined signature differs from the cached one (so the reconcile is
\* not skipped): for the store as it is, and after any write, keys that are
\* the empty string or hold a comma included.
C24_SignatureFaithful ==
  \A m \in 1..Len(mounts) : ~mounts[m].torn =>
    \A ci \in 1..Len(mounts[m].colls) :
      /\ presentIn(World, m, ci) # mappedIn(World, m, ci)
           => signature(World, m, ci) # mounts[m].colls[ci].lastKeyStr
      /\ \A a \in Probes \cup CommaWrites :
           LET d == silently(a.path, a.value) IN
           presentIn(d, m, ci) # mappedIn(d, m, ci)
             => signature(d, m, ci) # mounts[m].colls[ci].lastKeyStr

\* the same after the probe writes when no key, present or mapped, is the
\* empty string or holds a comma, which holds
C24_PlainKeys ==
  \A m \in 1..Len(mounts) : ~mounts[m].torn =>
    \A ci \in 1..Len(mounts[m].colls) :
      \A a \in Probes :
        LET d == silently(a.path, a.value) IN
        (/\ presentIn(d, m, ci) # mappedIn(d, m, ci)
         /\ <<>> \notin presentIn(d, m, ci) \cup mappedIn(d, m, ci))
          => signature(d, m, ci) # mounts[m].colls[ci].lastKeyStr

\* C25: under the root of a running mount, a mount made after the teardown
\* of an earlier one on the same root included, every element that bears a
\* binding attribute has a live binding for it, and a write to the bound
\* path of a text binding shows in the element.
C25_RemountRebinds ==
  \A m \in 1..Len(mounts) : ~mounts[m].torn =>
    \A n \in under(nodes, mounts[m].root) :
      \A b \in bindingAttrs(nodes[n]) :
        /\ subscriptionsFor(World, n, b) # {}
        /\ b.upd = "text" =>
             storeSet(World, b.path, Str(<< "z" >>)).nodes[n].text = << "z" >>

\* the same for the mounts that are the first on their root, which holds
C25_FirstMount ==
  \A m \in 1..Len(mounts) : soleMount(m) =>
    \A n \in under(nodes, mounts[m].root) :
      \A b \in bindingAttrs(nodes[n]) :
        /\ subscriptionsFor(World, n, b) # {}
        /\ b.upd = "text" =>
             storeSet(World, b.path, Str(<< "z" >>)).nodes[n].text = << "z" >>

\* C26: no revocation handle is invoked a second time: not by a reconcile
\* that a store write brings about, not by the cleanup function of a mount,
\* whether it is called for the first time, after reconciles that have
\* revoked the bindings of removed items, or once more.
C26_RevokedOnce ==
  /\ \A a \in Probes : storeSet(World, a.path, a.value).again = <<>>
  /\ \A m \in 1..Len(mounts) : teardown(World, m).again = <<>>

\* the same for the cleanup functions that have not been called yet, which
\* holds
C26_FirstTeardown ==
  /\ \A a \in Probes : storeSet(World, a.path, a.value).again = <<>>
  /\ \A m \in 1..Len(mounts) : ~mounts[m].torn => teardown(World, m).again = <<>>

====
